---- MODULE Spec2Model ----
(***************************************************************************)
(* A model of the hwmon sysfs library: the subfeature classifier, the      *)
(* subfeature read/write path, the chip naming and the chip enumeration.   *)
(* Attribute names and file contents are strings, handled character by     *)
(* character as the code's regex, parsers and formatters handle them.      *)
(***************************************************************************)
EXTENDS Integers, Sequences, FiniteSets, TLC

VARIABLES
    name,       \* classifier: the attribute file name handed to get_properties_from_name
    props,      \* classifier: the outcome of the call
    sf,         \* value path: the Subfeature (type and the flags taken at discovery)
    file,       \* value path: the attribute file at the subfeature's path
    ret,        \* value path: the last call on the subfeature and what it returned
    prev,       \* value path: the call before the last one
    content0,   \* value path: the file's content when the subfeature was discovered
    chip,       \* naming: the Chip (prefix, bus type, bus number, address)
    chipName,   \* naming: what Chip::name returned for it
    listable,   \* enumeration: whether /sys/class/hwmon can be listed
    i2c_adapters, \* enumeration: the files class/i2c-adapter/i2c-N/device/name
    entries,    \* enumeration: the directory entries read_dir has yielded so far
    chips,      \* enumeration: the Vec<Chip> of the running read_sysfs_chips call
    outcome,    \* enumeration: "Running", or how read_sysfs_chips ended
    busArgs,    \* bus: the subsystem, the device name and the adapter name files
    busRet,     \* bus: what get_chip_bus_from_name returned for them
    chipEntry, \* one entry: the hwmon entry the loop body of read_sysfs_chips works on
    chipAdapters, \* one entry: the files class/i2c-adapter/i2c-N/device/name
    attempts, \* one entry: the Chip::from_path calls made so far, with their results
    resolved,  \* one entry: what the loop body ended with
    sysfs_i2c, \* context: the directories class/i2c-adapter and bus/i2c/devices
    context, \* context: what Context::new returned
    chipBus, \* context: the Bus of a chip made by Chip::from_path
    adapterName,  \* context: what Bus::adapter_name returned for it
    feature, \* label: a Feature of a discovered chip
    labelDir, \* label: the label files of the chip directory
    labelDir0, \* label: the label files when the chip was discovered
    labelRet,  \* label: what Feature::label returned
    sessFiles, \* session: the regular files of /sys/class/hwmon/hwmon0
    sessCtx, \* session: the adapters of the Context
    snapshot, \* session: the collection a first read_sysfs_chips returned
    second, \* session: the collection a later read_sysfs_chips returned
    sessOp,  \* session: the last operation and its result
    scaleArg, \* scale: the tag and the suffix of an attribute file
    scaleRaw, \* scale: the content of the attribute file
    scaleRet,  \* scale: the type, its scale and the value read_value returned
    confStmts, \* configuration parser: the statements the text was written from
    confText, \* configuration parser: the text handed to parse_configuration_str
    confRet  \* configuration parser: the outcome of the call

classVars == <<name, props>>
valueVars == <<sf, file, ret, prev, content0>>
nameVars == <<chip, chipName>>
enumVars == <<listable, i2c_adapters, entries, chips, outcome>>
busVars == <<busArgs, busRet>>
chipVars == <<chipEntry, chipAdapters, attempts, resolved>>
ctxVars == <<sysfs_i2c, context, chipBus, adapterName>>
labelVars == <<feature, labelDir, labelDir0, labelRet>>
sessVars == <<sessFiles, sessCtx, snapshot, second, sessOp>>
scaleVars == <<scaleArg, scaleRaw, scaleRet>>
parseVars == <<confStmts, confText, confRet>>

vars == <<classVars, valueVars, nameVars, enumVars, busVars, chipVars, ctxVars, labelVars, sessVars, scaleVars, parseVars>>

-----------------------------------------------------------------------------
(* Characters and decimal text                                             *)

Digits == {"0", "1", "2", "3", "4", "5", "6", "7", "8", "9"}

\* &str slicing; an empty range gives the empty string.
Slice(s, i, j) == IF i > j \/ i > Len(s) THEN "" ELSE SubSeq(s, i, IF j > Len(s) THEN Len(s) ELSE j)

CharAt(s, i) == Slice(s, i, i)

\* str::starts_with
IsPrefix(p, s) == Len(p) <= Len(s) /\ Slice(s, 1, Len(p)) = p

IsDigit(c) == c \in Digits

DigitVal(c) ==
    CASE c = "0" -> 0 [] c = "1" -> 1 [] c = "2" -> 2 [] c = "3" -> 3
      [] c = "4" -> 4 [] c = "5" -> 5 [] c = "6" -> 6 [] c = "7" -> 7
      [] c = "8" -> 8 [] c = "9" -> 9

DigitChar(d) ==
    CASE d = 0 -> "0" [] d = 1 -> "1" [] d = 2 -> "2" [] d = 3 -> "3"
      [] d = 4 -> "4" [] d = 5 -> "5" [] d = 6 -> "6" [] d = 7 -> "7"
      [] d = 8 -> "8" [] d = 9 -> "9"

AllDigits(s) == \A i \in 1..Len(s) : IsDigit(CharAt(s, i))

\* The text of format!("{}", n) for an unsigned n.
RECURSIVE ToDecimal(_)
ToDecimal(n) ==
    IF n < 10 THEN DigitChar(n) ELSE ToDecimal(n \div 10) \o DigitChar(n % 10)

\* The number a string of decimal digits denotes.
RECURSIVE DecimalValue(_)
DecimalValue(s) ==
    IF Len(s) = 0 THEN 0
    ELSE DecimalValue(Slice(s, 1, Len(s) - 1)) * 10 + DigitVal(CharAt(s, Len(s)))

RECURSIVE StripZeros(_)
StripZeros(s) ==
    IF Len(s) > 1 /\ CharAt(s, 1) = "0" THEN StripZeros(Slice(s, 2, Len(s))) ELSE s

\* Lexicographic order of two digit strings of the same length.
RECURSIVE DigitsGreater(_, _)
DigitsGreater(a, b) ==
    IF Len(a) = 0 THEN FALSE
    ELSE IF CharAt(a, 1) # CharAt(b, 1)
         THEN DigitVal(CharAt(a, 1)) > DigitVal(CharAt(b, 1))
         ELSE DigitsGreater(Slice(a, 2, Len(a)), Slice(b, 2, Len(b)))

\* Whether the number written by the digit string s is larger than the one written by max.
ExceedsDecimal(s, max) ==
    LET t == StripZeros(s)
    IN  \/ Len(t) > Len(max)
        \/ Len(t) = Len(max) /\ DigitsGreater(t, max)

\* u32::MAX, as decimal text: the value lies beyond the 32-bit integers of TLC.
U32_MAX_TEXT == "4294967295"

\* str::parse::<u32> on a non-empty string of ASCII digits.
ParseU32(s) ==
    IF ExceedsDecimal(s, U32_MAX_TEXT)
    THEN [tag |-> "Err", error |-> "ParseInt"]
    ELSE [tag |-> "Ok", value |-> DecimalValue(s)]

-----------------------------------------------------------------------------
(* SubfeatureType and the static tables                                    *)

SubfeatureCpu == <<"Cpu">>
SubfeatureBeepEnable == <<"BeepEnable">>

\* The variants of the enums Fan .. Intrusion.
FanVariants ==
    {"Input", "Min", "Max", "Div", "Pulses", "Target", "Alarm", "Min_Alarm", "Max_Alarm",
     "Fault", "Beep"}

TemperatureVariants ==
    {"Input", "Min", "Min_Hyst", "Max", "Max_Hyst", "Crit_Min", "Crit_Min_Hyst", "Crit_Max",
     "Crit_Max_Hyst", "Emergency", "Emergency_Hyst", "Lowest", "Highest", "Type", "Offset",
     "Alarm", "Min_Alarm", "Max_Alarm", "Emergency_Alarm", "Crit_Min_Alarm",
     "Crit_Max_Alarm", "Fault", "Beep"}

VoltageVariants ==
    {"Input", "Min", "Max", "Crit_Min", "Crit_Max", "Average", "Lowest", "Highest", "Alarm",
     "Min_Alarm", "Max_Alarm", "Crit_Min_Alarm", "Crit_Max_Alarm", "Beep"}

CurrentVariants ==
    {"Input", "Min", "Max", "Crit_Min", "Crit_Max", "Average", "Lowest", "Highest", "Alarm",
     "Min_Alarm", "Max_Alarm", "Crit_Min_Alarm", "Crit_Max_Alarm", "Beep"}

PowerVariants ==
    {"Average", "Average_Lowest", "Average_Highest", "Input", "Input_Lowest",
     "Input_Highest", "Cap", "Cap_Min", "Cap_Max", "Cap_Hyst", "Min", "Max", "Crit_Min",
     "Crit_Max", "Average_Interval", "Accuracy", "Alarm", "Cap_Alarm", "Min_Alarm",
     "Max_Alarm", "Crit_Min_Alarm", "Crit_Max_Alarm"}

EnergyVariants == {"Input"}

HumidityVariants == {"Input"}

IntrusionVariants == {"Alarm", "Beep"}

\* The values of SubfeatureType that carry an enum, and Cpu.
TableSubfeatureTypes ==
    ({"Fan"} \X FanVariants) \cup ({"Temperature"} \X TemperatureVariants)
    \cup ({"Voltage"} \X VoltageVariants) \cup ({"Current"} \X CurrentVariants)
    \cup ({"Power"} \X PowerVariants) \cup ({"Energy"} \X EnergyVariants)
    \cup ({"Humidity"} \X HumidityVariants) \cup ({"Intrusion"} \X IntrusionVariants)
    \cup {SubfeatureCpu}

\* A suffix table that gives one type for all its suffixes.
MapOf_Collapsed(kind, pairs) ==
    [s \in {p[1] : p \in pairs} |-> <<kind, "Input">>]

MapOf(kind, pairs) ==
    [s \in {p[1] : p \in pairs} |-> <<kind, (CHOOSE p \in pairs : p[1] = s)[2]>>]

FAN_MAP ==
    MapOf("Fan", {
        <<"input", "Input">>, <<"min", "Min">>, <<"max", "Max">>, <<"div", "Div">>,
        <<"pulses", "Pulses">>, <<"target", "Target">>, <<"alarm", "Alarm">>,
        <<"min_alarm", "Min_Alarm">>, <<"max_alarm", "Max_Alarm">>,
        <<"fault", "Fault">>, <<"beep", "Beep">>})

TEMPERATURE_MAP ==
    MapOf("Temperature", {
        <<"input", "Input">>, <<"max", "Max">>, <<"max_hyst", "Max_Hyst">>,
        <<"min", "Min">>, <<"min_hyst", "Min_Hyst">>, <<"crit", "Crit_Max">>,
        <<"crit_hyst", "Crit_Max_Hyst">>, <<"lcrit", "Crit_Min">>,
        <<"lcrit_hyst", "Crit_Min_Hyst">>, <<"emergency", "Emergency">>,
        <<"emergency_hyst", "Emergency_Hyst">>, <<"lowest", "Lowest">>,
        <<"highest", "Highest">>, <<"alarm", "Alarm">>, <<"min_alarm", "Min_Alarm">>,
        <<"max_alarm", "Max_Alarm">>, <<"crit_alarm", "Crit_Max_Alarm">>,
        <<"emergency_alarm", "Emergency_Alarm">>, <<"lcrit_alarm", "Crit_Min_Alarm">>,
        <<"fault", "Fault">>, <<"type", "Type">>, <<"offset", "Offset">>,
        <<"beep", "Beep">>})

VOLTAGE_MAP ==
    MapOf("Voltage", {
        <<"input", "Input">>, <<"min", "Min">>, <<"max", "Max">>,
        <<"lcrit", "Crit_Min">>, <<"crit", "Crit_Max">>, <<"average", "Average">>,
        <<"lowest", "Lowest">>, <<"highest", "Highest">>, <<"alarm", "Alarm">>,
        <<"min_alarm", "Min_Alarm">>, <<"max_alarm", "Max_Alarm">>,
        <<"lcrit_alarm", "Crit_Min_Alarm">>, <<"crit_alarm", "Crit_Max_Alarm">>,
        <<"beep", "Beep">>})

CURRENT_MAP ==
    MapOf("Current", {
        <<"input", "Input">>, <<"min", "Min">>, <<"max", "Max">>,
        <<"lcrit", "Crit_Min">>, <<"crit", "Crit_Max">>, <<"average", "Average">>,
        <<"lowest", "Lowest">>, <<"highest", "Highest">>, <<"alarm", "Alarm">>,
        <<"min_alarm", "Min_Alarm">>, <<"max_alarm", "Max_Alarm">>,
        <<"lcrit_alarm", "Crit_Min_Alarm">>, <<"crit_alarm", "Crit_Max_Alarm">>,
        <<"beep", "Beep">>})

POWER_MAP ==
    MapOf("Power", {
        <<"average", "Average">>, <<"average_highest", "Average_Highest">>,
        <<"average_lowest", "Average_Lowest">>, <<"input", "Input">>,
        <<"input_highest", "Input_Highest">>, <<"input_lowest", "Input_Lowest">>,
        <<"accuracy", "Accuracy">>, <<"cap", "Cap">>, <<"cap_hyst", "Cap_Hyst">>,
        <<"cap_max", "Cap_Max">>, <<"cap_min", "Cap_Min">>, <<"cap_alarm", "Cap_Alarm">>,
        <<"alarm", "Alarm">>, <<"max", "Max">>, <<"min", "Min">>,
        <<"max_alarm", "Max_Alarm">>, <<"min_alarm", "Min_Alarm">>,
        <<"crit", "Crit_Max">>, <<"lcrit", "Crit_Min">>,
        <<"crit_alarm", "Crit_Max_Alarm">>, <<"lcrit_alarm", "Crit_Min_Alarm">>,
        <<"average_interval", "Average_Interval">>})

ENERGY_MAP == MapOf("Energy", {<<"input", "Input">>})

HUMIDITY_MAP == MapOf("Humidity", {<<"input", "Input">>})

CPU_MAP == [s \in {"vid"} |-> SubfeatureCpu]

INTRUSION_MAP == MapOf("Intrusion", {<<"alarm", "Alarm">>, <<"beep", "Beep">>})

\* The tag table with the suffix tables of "in" and "curr" exchanged.
FEATURE_TYPE_MAP_Swapped ==
    [t \in {"temp", "in", "fan", "cpu", "power", "curr", "energy", "intrusion", "humidity"} |->
        CASE t = "temp"      -> <<"Temperature", TEMPERATURE_MAP>>
          [] t = "in"        -> <<"Voltage", CURRENT_MAP>>
          [] t = "fan"       -> <<"Fan", FAN_MAP>>
          [] t = "cpu"       -> <<"Cpu", CPU_MAP>>
          [] t = "power"     -> <<"Power", POWER_MAP>>
          [] t = "curr"      -> <<"Current", VOLTAGE_MAP>>
          [] t = "energy"    -> <<"Energy", ENERGY_MAP>>
          [] t = "intrusion" -> <<"Intrusion", INTRUSION_MAP>>
          [] t = "humidity"  -> <<"Humidity", HUMIDITY_MAP>>]

\* The tag table with a tenth tag, pwm.
FEATURE_TYPE_MAP_WithPwm ==
    [t \in {"temp", "in", "fan", "cpu", "power", "curr", "energy", "intrusion", "humidity",
            "pwm"} |->
        CASE t = "temp"      -> <<"Temperature", TEMPERATURE_MAP>>
          [] t = "in"        -> <<"Voltage", VOLTAGE_MAP>>
          [] t = "fan"       -> <<"Fan", FAN_MAP>>
          [] t = "cpu"       -> <<"Cpu", CPU_MAP>>
          [] t = "power"     -> <<"Power", POWER_MAP>>
          [] t = "curr"      -> <<"Current", CURRENT_MAP>>
          [] t = "energy"    -> <<"Energy", ENERGY_MAP>>
          [] t = "intrusion" -> <<"Intrusion", INTRUSION_MAP>>
          [] t = "humidity"  -> <<"Humidity", HUMIDITY_MAP>>
          [] t = "pwm"       -> <<"Pwm", [s \in {"enable"} |-> <<"Pwm", "Enable">>]>>]

\* tag -> (FeatureType, suffix table)
FEATURE_TYPE_MAP ==
    [t \in {"temp", "in", "fan", "cpu", "power", "curr", "energy", "intrusion", "humidity"} |->
        CASE t = "temp"      -> <<"Temperature", TEMPERATURE_MAP>>
          [] t = "in"        -> <<"Voltage", VOLTAGE_MAP>>
          [] t = "fan"       -> <<"Fan", FAN_MAP>>
          [] t = "cpu"       -> <<"Cpu", CPU_MAP>>
          [] t = "power"     -> <<"Power", POWER_MAP>>
          [] t = "curr"      -> <<"Current", CURRENT_MAP>>
          [] t = "energy"    -> <<"Energy", ENERGY_MAP>>
          [] t = "intrusion" -> <<"Intrusion", INTRUSION_MAP>>
          [] t = "humidity"  -> <<"Humidity", HUMIDITY_MAP>>]

-----------------------------------------------------------------------------
(* Subfeature::get_properties_from_name                                    *)

\* Length of the longest prefix of s made of non-digits: the capture (\D*) after ^.
RECURSIVE NonDigitRun(_)
NonDigitRun(s) ==
    IF Len(s) = 0 \/ IsDigit(CharAt(s, 1)) THEN 0
    ELSE 1 + NonDigitRun(Slice(s, 2, Len(s)))

\* Length of the longest prefix of s made of digits: the capture (\d+).
RECURSIVE DigitRun(_)
DigitRun(s) ==
    IF Len(s) = 0 \/ ~IsDigit(CharAt(s, 1)) THEN 0
    ELSE 1 + DigitRun(Slice(s, 2, Len(s)))

\* Length of the longest prefix of s without a line feed: the capture (.*).
RECURSIVE DotRun(_)
DotRun(s) ==
    IF Len(s) = 0 \/ CharAt(s, 1) = "\n" THEN 0
    ELSE 1 + DotRun(Slice(s, 2, Len(s)))

\* The regex with \d in place of \d+: an index of exactly one digit.
RegexCaptures_OneDigit(s) ==
    LET k    == NonDigitRun(s)
        rest == Slice(s, k + 1, Len(s))
        tail == Slice(rest, 3, Len(rest))
    IN  IF IsDigit(CharAt(rest, 1)) /\ CharAt(rest, 2) = "_"
        THEN [matched |-> TRUE,
              cap1 |-> Slice(s, 1, k),
              cap2 |-> Slice(rest, 1, 1),
              cap3 |-> Slice(tail, 1, DotRun(tail))]
        ELSE [matched |-> FALSE]

\* Regex ^(\D*)(\d+)_(.*) applied to s: the three captures, or no match.
RegexCaptures(s) ==
    LET k    == NonDigitRun(s)
        rest == Slice(s, k + 1, Len(s))
        m    == DigitRun(rest)
        tail == Slice(rest, m + 2, Len(rest))
    IN  IF m >= 1 /\ CharAt(rest, m + 1) = "_"
        THEN [matched |-> TRUE,
              cap1 |-> Slice(s, 1, k),
              cap2 |-> Slice(rest, 1, m),
              cap3 |-> Slice(tail, 1, DotRun(tail))]
        ELSE [matched |-> FALSE]

get_properties_from_name(n) ==
    IF n = "beep_enable"
    THEN [tag |-> "Ok", number |-> 0, sf_type |-> SubfeatureBeepEnable]
    ELSE LET caps == RegexCaptures(n)
         IN  IF caps.matched
             THEN LET feature_number == ParseU32(caps.cap2)
                  IN  IF feature_number.tag # "Ok"
                      THEN [tag |-> "Panic"]     \* unwrap() of the parse error
                      ELSE IF /\ caps.cap1 \in DOMAIN FEATURE_TYPE_MAP
                              /\ caps.cap3 \in DOMAIN FEATURE_TYPE_MAP[caps.cap1][2]
                           THEN [tag |-> "Ok",
                                 number |-> feature_number.value,
                                 sf_type |-> FEATURE_TYPE_MAP[caps.cap1][2][caps.cap3]]
                           ELSE [tag |-> "Err", error |-> "Unknown"]
             ELSE [tag |-> "Err", error |-> "Invalid"]

-----------------------------------------------------------------------------
(* SubfeatureType::scale                                                   *)

SCALE_MILLI == 1000
SCALE_MICRO == 1000000

\* A scale of one thousand for every type.
scale_AllMilli(t) == SCALE_MILLI

scale(t) ==
    CASE t[1] = "Fan" -> 1
      [] t[1] = "Temperature" ->
            (CASE t[2] \in {"Input", "Min", "Min_Hyst", "Max", "Max_Hyst", "Crit_Min",
                           "Crit_Min_Hyst", "Crit_Max", "Crit_Max_Hyst", "Emergency",
                           "Emergency_Hyst", "Lowest", "Highest", "Offset"} -> SCALE_MILLI
              [] t[2] \in {"Alarm", "Min_Alarm", "Max_Alarm", "Crit_Min_Alarm",
                           "Crit_Max_Alarm", "Fault", "Beep", "Emergency_Alarm", "Type"} -> 1)
      [] t[1] = "Voltage" ->
            (CASE t[2] \in {"Input", "Min", "Max", "Crit_Min", "Crit_Max", "Average",
                           "Lowest", "Highest"} -> SCALE_MILLI
              [] t[2] \in {"Alarm", "Min_Alarm", "Max_Alarm", "Beep", "Crit_Min_Alarm",
                           "Crit_Max_Alarm"} -> 1)
      [] t[1] = "Current" ->
            (CASE t[2] \in {"Input", "Min", "Max", "Crit_Min", "Crit_Max", "Average",
                           "Lowest", "Highest"} -> SCALE_MILLI
              [] t[2] \in {"Alarm", "Min_Alarm", "Max_Alarm", "Beep", "Crit_Min_Alarm",
                           "Crit_Max_Alarm"} -> 1)
      [] t[1] = "Power" ->
            (CASE t[2] \in {"Average", "Average_Lowest", "Average_Highest", "Input",
                           "Input_Lowest", "Input_Highest", "Cap", "Cap_Min", "Cap_Max",
                           "Cap_Hyst", "Min", "Max", "Crit_Min", "Crit_Max"} -> SCALE_MICRO
              [] t[2] = "Average_Interval" -> SCALE_MILLI
              [] t[2] \in {"Alarm", "Cap_Alarm", "Min_Alarm", "Max_Alarm", "Crit_Min_Alarm",
                           "Crit_Max_Alarm", "Accuracy"} -> 1)
      [] t[1] = "Energy" -> SCALE_MICRO
      [] t[1] = "Humidity" -> SCALE_MILLI
      [] t[1] = "Cpu" -> SCALE_MILLI
      [] t[1] = "Intrusion" -> 1
      [] t[1] = "BeepEnable" -> 1

-----------------------------------------------------------------------------
(* f64 values, sysfs_read_file, read_value and write_value                 *)

\* An f64 engineering value v is held as the integer v * UNIT: the values of the
\* model are multiples of 1/UNIT, which every scale divides; at this size f64
\* arithmetic is exact to far below one raw unit.
UNIT == SCALE_MICRO

Abs(a) == IF a < 0 THEN -a ELSE a

RECURSIVE Pow10(_)
Pow10(k) == IF k = 0 THEN 1 ELSE 10 * Pow10(k - 1)

Whitespace == {" ", "\n", "\t", "\r"}

\* str::trim_right
RECURSIVE TrimRight(_)
TrimRight(s) ==
    IF Len(s) > 0 /\ CharAt(s, Len(s)) \in Whitespace
    THEN TrimRight(Slice(s, 1, Len(s) - 1))
    ELSE s

\* Position of the first "." of s, or 0.
RECURSIVE DotPos(_, _)
DotPos(s, i) ==
    IF i > Len(s) THEN 0 ELSE IF CharAt(s, i) = "." THEN i ELSE DotPos(s, i + 1)

\* str::parse::<f64> on the decimal notation [+-]digits[.digits] (exponents and
\* the words inf and nan do not occur in the texts of the model): the number is
\* mant / 10^frac.
ParseF64(s) ==
    LET signed == Len(s) > 0 /\ CharAt(s, 1) \in {"+", "-"}
        body   == IF signed THEN Slice(s, 2, Len(s)) ELSE s
        dot    == DotPos(body, 1)
        ip     == IF dot = 0 THEN body ELSE Slice(body, 1, dot - 1)
        fp     == IF dot = 0 THEN "" ELSE Slice(body, dot + 1, Len(body))
        mag    == DecimalValue(ip \o fp)
    IN  IF Len(ip \o fp) > 0 /\ AllDigits(ip \o fp)
        THEN [tag |-> "Ok",
              mant |-> IF signed /\ CharAt(s, 1) = "-" THEN -mag ELSE mag,
              frac |-> Len(fp)]
        ELSE [tag |-> "Err", error |-> "ParseFloat"]

\* sysfs_read_file: open for reading, read everything, trim the right end.
sysfs_read_file(f) ==
    IF ~f.present
    THEN [tag |-> "Err", error |-> "Io"]
    ELSE [tag |-> "Ok", text |-> TrimRight(f.content)]

\* read_sysfs_value: the parsed number divided by the scale of the type.
read_sysfs_value(s, f) ==
    LET text == sysfs_read_file(f)
    IN  IF text.tag # "Ok" THEN text
        ELSE LET num == ParseF64(text.text)
             IN  IF num.tag # "Ok" THEN num
                 ELSE [tag |-> "Ok",
                       value |-> (num.mant * (UNIT \div scale(s.subfeature_type)))
                                     \div Pow10(num.frac)]

\* read_value without the test of the readable flag.
read_value_Unchecked(s, f) ==
    [res |-> read_sysfs_value(s, f), opened |-> TRUE]

read_value(s, f) ==
    IF s.is_readable
    THEN [res |-> read_sysfs_value(s, f), opened |-> TRUE]
    ELSE [res |-> [tag |-> "Err", error |-> "Access"], opened |-> FALSE]

\* f64::round of a / q: to the nearest integer, halves away from zero.
RoundHalfAway(a, q) ==
    IF a >= 0 THEN (a + q \div 2) \div q ELSE -((-a + q \div 2) \div q)

\* The text of `(x as u32)` for the rounded value r: the cast saturates at 0 and
\* at u32::MAX.
CastU32Text(r) ==
    IF r < 0 THEN "0"
    ELSE IF ExceedsDecimal(ToDecimal(r), U32_MAX_TEXT) THEN U32_MAX_TEXT
    ELSE ToDecimal(r)

\* write! at offset 0 of a file opened without truncation: the bytes beyond the
\* written text stay.
Overwrite(content, text) ==
    IF Len(text) >= Len(content) THEN text
    ELSE text \o Slice(content, Len(text) + 1, Len(content))

\* write_sysfs_value: value * scale, rounded, cast to u32, written as decimal text.
write_sysfs_value(s, f, value) ==
    LET i_value == CastU32Text(RoundHalfAway(value, UNIT \div scale(s.subfeature_type)))
    IN  IF ~f.present
        THEN [res |-> [tag |-> "Err", error |-> "Io"], file |-> f]
        ELSE [res |-> [tag |-> "Ok"],
              file |-> [f EXCEPT !.content = Overwrite(f.content, i_value)]]

\* write_value without the test of the writable flag.
write_value_Unchecked(s, f, value) ==
    LET w == write_sysfs_value(s, f, value)
    IN  [res |-> w.res, file |-> w.file, opened |-> TRUE]

write_value(s, f, value) ==
    IF s.is_writable
    THEN LET w == write_sysfs_value(s, f, value)
         IN  [res |-> w.res, file |-> w.file, opened |-> TRUE]
    ELSE [res |-> [tag |-> "Err", error |-> "Access"], file |-> f, opened |-> FALSE]

-----------------------------------------------------------------------------
(* One subfeature and its attribute file as a state machine                *)

MaxRaw == 7
MaxWrite == 12

ValueTypes ==
    {<<"Fan", "Min">>, <<"Temperature", "Max">>, <<"Power", "Cap">>, SubfeatureBeepEnable}

RawTexts == {ToDecimal(r) : r \in {0, 1, MaxRaw, 10 * MaxRaw, 1000}}

FileTexts ==
    {t \o "\n" : t \in RawTexts}
        \cup {"-" \o t \o "\n" : t \in RawTexts \ {"0"}}
        \cup {"", "abc\n", "1.5\n", " 5\n", "12"}

\* Engineering values handed to write_value: whole numbers and odd multiples of 0.0005.
WriteArgs ==
    {k * UNIT : k \in {-MaxWrite, -1, 0, 1, MaxWrite}}
        \cup {k * (UNIT \div 2000) : k \in {-3, -1, 1, 3, 5}}

\* The range of engineering values the model holds: a file whose number lies
\* beyond MaxEng (in engineering units), or is no multiple of 1/UNIT once
\* divided by the scale, is not read.
MaxEng == 2000

ReadInRange(s, f) ==
    LET text   == sysfs_read_file(f)
        t      == IF text.tag = "Ok" THEN text.text ELSE ""
        body   == IF Len(t) > 0 /\ CharAt(t, 1) \in {"+", "-"} THEN Slice(t, 2, Len(t)) ELSE t
        dot    == DotPos(body, 1)
        ip     == IF dot = 0 THEN body ELSE Slice(body, 1, dot - 1)
        fp     == IF dot = 0 THEN "" ELSE Slice(body, dot + 1, Len(body))
        q      == UNIT \div scale(s.subfeature_type)
    IN  (s.is_readable /\ Len(ip \o fp) > 0 /\ AllDigits(ip \o fp)) =>
            /\ ~ExceedsDecimal(ip, ToDecimal(MaxEng * scale(s.subfeature_type)))
            /\ Len(fp) <= 1
            /\ Len(fp) = 1 => (DigitVal(fp) * q) % 10 = 0

NoResult == [tag |-> "None"]

NoChip == [prefix |-> "", bus_type |-> "Virtual", bus_number |-> 0, address |-> 0]

NoBusArgs == [subsytem |-> "", device_name |-> "", adapters |-> {}]

NoDir == [name_attr |-> [present |-> FALSE, content |-> ""], listable |-> FALSE, files |-> {}]

NoEntry ==
    [readable |-> FALSE, name |-> "", hwmon |-> NoDir,
     device |-> [some |-> FALSE, dev_name |-> "",
                 subsystem |-> [present |-> FALSE, name |-> ""], dir |-> NoDir]]

NoCall == [op |-> "none", arg |-> 0, res |-> [tag |-> "None"], opened |-> FALSE]

\* Subfeature::from_path: the flags are the owner bits of st_mode at discovery.
NoSubfeature ==
    [subfeature_type |-> SubfeatureBeepEnable, is_readable |-> FALSE,
     is_writable |-> FALSE]

NoFile == [present |-> FALSE, content |-> ""]

NotADir == [is_dir |-> FALSE, listable |-> FALSE, entries |-> <<>>]

NoFeature == [dir |-> "", name |-> "", number |-> 0, feature_type |-> "BeepEnable", subfeatures |-> {}]

NoLabelDir == {}

NoSessFiles == <<>>

NoSessOp == [n |-> 0, op |-> "none", path |-> "", res |-> NoResult]

NoScaleArg == [tag |-> "", suffix |-> ""]

NoSysfsI2C == [class |-> NotADir, devices |-> NotADir]

InitValue ==
    /\ sf \in [subfeature_type : ValueTypes, is_readable : BOOLEAN, is_writable : BOOLEAN]
    /\ \E c \in FileTexts : file = [present |-> TRUE, content |-> c]
    /\ content0 = file.content
    /\ ret = NoCall
    /\ prev = NoCall
    /\ name = ""
    /\ props = NoResult
    /\ chip = NoChip
    /\ chipName = ""
    /\ listable = FALSE
    /\ i2c_adapters = {}
    /\ entries = <<>>
    /\ chips = <<>>
    /\ outcome = "Idle"
    /\ busArgs = NoBusArgs
    /\ busRet = NoResult
    /\ chipEntry = NoEntry
    /\ chipAdapters = {}
    /\ attempts = <<>>
    /\ resolved = NoResult
    /\ sysfs_i2c = NoSysfsI2C
    /\ context = NoResult
    /\ chipBus = NoResult
    /\ adapterName = NoResult
    /\ feature = NoFeature
    /\ labelDir = NoLabelDir
    /\ labelDir0 = NoLabelDir
    /\ labelRet = NoResult
    /\ sessFiles = NoSessFiles
    /\ sessCtx = <<>>
    /\ snapshot = NoResult
    /\ second = NoResult
    /\ sessOp = NoSessOp
    /\ scaleArg = NoScaleArg
    /\ scaleRaw = ""
    /\ scaleRet = NoResult
    /\ confStmts = <<>>
    /\ confText = ""
    /\ confRet = NoResult

ReadValue ==
    LET r == read_value(sf, file)
    IN  /\ ReadInRange(sf, file)
        /\ ret' = [op |-> "read_value", arg |-> 0, res |-> r.res, opened |-> r.opened]
        /\ prev' = ret
        /\ UNCHANGED <<sf, file, content0>>

WriteValue ==
    \E x \in WriteArgs \cup (IF ret.op = "read_value" /\ ret.res.tag = "Ok"
                             THEN {ret.res.value} ELSE {}) :
        LET w == write_value(sf, file, x)
        IN  /\ ret' = [op |-> "write_value", arg |-> x, res |-> w.res, opened |-> w.opened]
            /\ prev' = ret
            /\ file' = w.file
            /\ UNCHANGED <<sf, content0>>

\* The device goes away: the attribute file no longer exists.
Unplug ==
    /\ file.present
    /\ file' = [file EXCEPT !.present = FALSE]
    /\ ret' = [op |-> "unplug", arg |-> 0, res |-> [tag |-> "None"], opened |-> FALSE]
    /\ prev' = ret
    /\ UNCHANGED <<sf, content0>>

-----------------------------------------------------------------------------
(* Chip::name                                                              *)

BusTypes == {"I2C", "ISA", "PCI", "SPI", "Virtual", "ACPI", "HID", "MDIO", "SCSI"}

HexChar(d) ==
    CASE d < 10 -> DigitChar(d)
      [] d = 10 -> "a" [] d = 11 -> "b" [] d = 12 -> "c"
      [] d = 13 -> "d" [] d = 14 -> "e" [] d = 15 -> "f"

\* format!("{:x}", n)
RECURSIVE LowerHex(_)
LowerHex(n) ==
    IF n < 16 THEN HexChar(n) ELSE LowerHex(n \div 16) \o HexChar(n % 16)

\* Zero padding to a minimal width, the 0w of a format specification.
RECURSIVE PadZeros(_, _)
PadZeros(s, width) == IF Len(s) >= width THEN s ELSE PadZeros("0" \o s, width)

\* format!("{:04x}", n) and format!("{:02x}", n)
LowerHexPadded(n, width) == PadZeros(LowerHex(n), width)

\* format!("{}", n) for a signed n
Display(n) == IF n < 0 THEN "-" \o ToDecimal(-n) ELSE ToDecimal(n)

\* The name with the address of every bus type written as plain {:x}.
ChipName_NoPadding(c) ==
    CASE c.bus_type = "ISA"     -> c.prefix \o "-isa-" \o LowerHex(c.address)
      [] c.bus_type = "PCI"     -> c.prefix \o "-pci-" \o LowerHex(c.address)
      [] c.bus_type = "I2C"     ->
            c.prefix \o "-i2C-" \o Display(c.bus_number) \o "-" \o LowerHex(c.address)
      [] c.bus_type = "SPI"     ->
            c.prefix \o "-spi-" \o Display(c.bus_number) \o "-" \o LowerHex(c.address)
      [] c.bus_type = "HID"     ->
            c.prefix \o "-hid-" \o Display(c.bus_number) \o "-" \o LowerHex(c.address)
      [] c.bus_type = "ACPI"    -> c.prefix \o "-acpi-" \o LowerHex(c.address)
      [] c.bus_type = "MDIO"    -> c.prefix \o "-mdio-" \o LowerHex(c.address)
      [] c.bus_type = "SCSI"    ->
            c.prefix \o "-scsi-" \o Display(c.bus_number) \o "-" \o LowerHex(c.address)
      [] c.bus_type = "Virtual" -> c.prefix \o "-virtual-" \o LowerHex(c.address)

ChipName(c) ==
    CASE c.bus_type = "ISA"     -> c.prefix \o "-isa-" \o LowerHexPadded(c.address, 4)
      [] c.bus_type = "PCI"     -> c.prefix \o "-pci-" \o LowerHexPadded(c.address, 4)
      [] c.bus_type = "I2C"     ->
            c.prefix \o "-i2C-" \o Display(c.bus_number) \o "-" \o LowerHexPadded(c.address, 2)
      [] c.bus_type = "SPI"     ->
            c.prefix \o "-spi-" \o Display(c.bus_number) \o "-" \o LowerHex(c.address)
      [] c.bus_type = "HID"     ->
            c.prefix \o "-hid-" \o Display(c.bus_number) \o "-" \o LowerHex(c.address)
      [] c.bus_type = "ACPI"    -> c.prefix \o "-acpi-" \o LowerHex(c.address)
      [] c.bus_type = "MDIO"    -> c.prefix \o "-mdio-" \o LowerHex(c.address)
      [] c.bus_type = "SCSI"    ->
            c.prefix \o "-scsi-" \o Display(c.bus_number) \o "-" \o LowerHex(c.address)
      [] c.bus_type = "Virtual" -> c.prefix \o "-virtual-" \o LowerHex(c.address)

-----------------------------------------------------------------------------
(* Chip::name as a state machine: one call on one chip                     *)

MaxBusNumber == 3
MaxAddress == 300

Prefixes == {"lm75", "coretemp"}

\* Bus numbers and addresses as get_chip_bus_from_name produces them: a bus
\* number other than 0 on I2C, SPI and SCSI only, an address other than 0 on
\* I2C, ISA, PCI, SPI and SCSI only.
NumberedBusTypes == {"I2C", "SPI", "SCSI"}
AddressedBusTypes == {"I2C", "ISA", "PCI", "SPI", "SCSI"}

Addresses == (0..MaxAddress) \cup {3971, 4095, 4096, 65535, 65536, 11259375}

Chips ==
    {c \in [prefix : Prefixes, bus_type : BusTypes,
            bus_number : 0..MaxBusNumber, address : Addresses] :
        /\ c.bus_type \notin NumberedBusTypes => c.bus_number = 0
        /\ c.bus_type \notin AddressedBusTypes => c.address = 0}

InitName ==
    /\ chip \in Chips
    /\ chipName = ""
    /\ name = ""
    /\ props = NoResult
    /\ sf = NoSubfeature
    /\ file = NoFile
    /\ content0 = ""
    /\ ret = NoCall
    /\ prev = NoCall
    /\ listable = FALSE
    /\ i2c_adapters = {}
    /\ entries = <<>>
    /\ chips = <<>>
    /\ outcome = "Idle"
    /\ busArgs = NoBusArgs
    /\ busRet = NoResult
    /\ chipEntry = NoEntry
    /\ chipAdapters = {}
    /\ attempts = <<>>
    /\ resolved = NoResult
    /\ sysfs_i2c = NoSysfsI2C
    /\ context = NoResult
    /\ chipBus = NoResult
    /\ adapterName = NoResult
    /\ feature = NoFeature
    /\ labelDir = NoLabelDir
    /\ labelDir0 = NoLabelDir
    /\ labelRet = NoResult
    /\ sessFiles = NoSessFiles
    /\ sessCtx = <<>>
    /\ snapshot = NoResult
    /\ second = NoResult
    /\ sessOp = NoSessOp
    /\ scaleArg = NoScaleArg
    /\ scaleRaw = ""
    /\ scaleRet = NoResult
    /\ confStmts = <<>>
    /\ confText = ""
    /\ confRet = NoResult

Name ==
    /\ chipName = ""
    /\ chipName' = ChipName(chip)
    /\ UNCHANGED chip

-----------------------------------------------------------------------------
(* The classifier as a state machine: one call on one name                 *)

MaxIndex == 12

TableSuffixes == UNION {DOMAIN FEATURE_TYPE_MAP[t][2] : t \in DOMAIN FEATURE_TYPE_MAP}

ClassifyTags == DOMAIN FEATURE_TYPE_MAP \cup {"pwm", "beep", ""}

ClassifyIndexTexts ==
    {ToDecimal(n) : n \in 0..MaxIndex}
        \cup {"0" \o ToDecimal(n) : n \in 0..MaxIndex}
        \cup {"", "4294967296", "99999999999"}

ClassifySuffixes == TableSuffixes \cup {"", "label", "enable", "input\nx"}

ClassifyNames ==
    {t \o d \o sep \o s :
        t \in ClassifyTags, d \in ClassifyIndexTexts, sep \in {"_", ""}, s \in ClassifySuffixes}
    \cup {"beep_enable", "name", "uevent", "unrelated_file", "temp1x2_input", "temp1-input",
          "temp_1_input", "fan2_input_3"}

InitClassify ==
    /\ name \in ClassifyNames
    /\ props = NoResult
    /\ sf = NoSubfeature
    /\ file = NoFile
    /\ content0 = ""
    /\ ret = NoCall
    /\ prev = NoCall
    /\ chip = NoChip
    /\ chipName = ""
    /\ listable = FALSE
    /\ i2c_adapters = {}
    /\ entries = <<>>
    /\ chips = <<>>
    /\ outcome = "Idle"
    /\ busArgs = NoBusArgs
    /\ busRet = NoResult
    /\ chipEntry = NoEntry
    /\ chipAdapters = {}
    /\ attempts = <<>>
    /\ resolved = NoResult
    /\ sysfs_i2c = NoSysfsI2C
    /\ context = NoResult
    /\ chipBus = NoResult
    /\ adapterName = NoResult
    /\ feature = NoFeature
    /\ labelDir = NoLabelDir
    /\ labelDir0 = NoLabelDir
    /\ labelRet = NoResult
    /\ sessFiles = NoSessFiles
    /\ sessCtx = <<>>
    /\ snapshot = NoResult
    /\ second = NoResult
    /\ sessOp = NoSessOp
    /\ scaleArg = NoScaleArg
    /\ scaleRaw = ""
    /\ scaleRet = NoResult
    /\ confStmts = <<>>
    /\ confText = ""
    /\ confRet = NoResult

Classify ==
    /\ props = NoResult
    /\ props' = get_properties_from_name(name)
    /\ UNCHANGED name

-----------------------------------------------------------------------------
(* Integer parsing and get_chip_bus_from_name                              *)

HexDigits == Digits \cup {"a", "b", "c", "d", "e", "f", "A", "B", "C", "D", "E", "F"}

HexDigit(c) ==
    CASE c \in Digits -> DigitVal(c)
      [] c \in {"a", "A"} -> 10 [] c \in {"b", "B"} -> 11 [] c \in {"c", "C"} -> 12
      [] c \in {"d", "D"} -> 13 [] c \in {"e", "E"} -> 14 [] c \in {"f", "F"} -> 15

RECURSIVE HexNumber(_)
HexNumber(s) ==
    IF Len(s) = 0 THEN 0
    ELSE HexNumber(Slice(s, 1, Len(s) - 1)) * 16 + HexDigit(CharAt(s, Len(s)))

ParseIntErr == [tag |-> "Err", error |-> "ParseInt"]

\* The digits of an integer text after its optional sign.
Unsigned(s, signs) == IF CharAt(s, 1) \in signs THEN Slice(s, 2, Len(s)) ELSE s

I16_MAX_TEXT == "32767"
I16_MIN_TEXT == "32768"

\* i16::from_str
I16FromStr(s) ==
    LET body == Unsigned(s, {"+", "-"})
        neg == CharAt(s, 1) = "-"
    IN  IF Len(body) = 0 \/ ~AllDigits(body) THEN ParseIntErr
        ELSE IF ExceedsDecimal(body, IF neg THEN I16_MIN_TEXT ELSE I16_MAX_TEXT)
             THEN ParseIntErr
             ELSE [tag |-> "Ok",
                   value |-> IF neg THEN 0 - DecimalValue(body) ELSE DecimalValue(body)]

\* u32::from_str
U32FromStr(s) ==
    LET body == Unsigned(s, {"+"})
    IN  IF Len(body) = 0 \/ ~AllDigits(body) THEN ParseIntErr ELSE ParseU32(body)

\* u32::from_str_radix(s, 16)
U32FromStrRadix16(s) ==
    LET body == Unsigned(s, {"+"})
    IN  IF Len(body) = 0 \/ \E i \in 1..Len(body) : CharAt(body, i) \notin HexDigits
        THEN ParseIntErr
        ELSE IF Len(StripZeros(body)) > 8 THEN ParseIntErr
             ELSE [tag |-> "Ok", value |-> HexNumber(body)]

RECURSIVE FindChar(_, _, _)
FindChar(s, ch, i) ==
    IF i > Len(s) THEN 0
    ELSE IF CharAt(s, i) = ch THEN i ELSE FindChar(s, ch, i + 1)

\* str::split(ch).collect(): always at least one piece.
RECURSIVE Split(_, _)
Split(s, ch) ==
    LET p == FindChar(s, ch, 1)
    IN  IF p = 0 THEN <<s>>
        ELSE <<Slice(s, 1, p - 1)>> \o Split(Slice(s, p + 1, Len(s)), ch)

\* args.get(i) of a Vec<&str>, i counted from 0.
Get(args, i) == IF i + 1 <= Len(args) THEN [some |-> TRUE, text |-> args[i + 1]]
                ELSE [some |-> FALSE, text |-> ""]

ParseBusInfo == [tag |-> "Err", error |-> "ParseBusInfo"]
UnknownDevice == [tag |-> "Err", error |-> "UnknownDevice"]

BusOk(bus_type, bus_number, address) ==
    [tag |-> "Ok", bus_type |-> bus_type, bus_number |-> bus_number, address |-> address]

\* The "i2c" arm without the test for the legacy ISA bus number.
I2CBus_NoLegacy(bus_number, a1, address, adapters) ==
    IF bus_number.tag # "Ok" \/ ~a1.some \/ address.tag # "Ok" THEN ParseIntErr
    ELSE IF \E a \in adapters : a.number = bus_number.value /\ a.content = "ISA"
         THEN BusOk("ISA", 0, address.value)
         ELSE BusOk("I2C", bus_number.value, address.value)

\* The "i2c" arm after its parses.  adapters is the set of files
\* class/i2c-adapter/i2c-N/device/name that exist, each with its number and content.
I2CBus(bus_number, a1, address, adapters) ==
    IF bus_number.tag # "Ok" THEN ParseIntErr
    ELSE IF ~a1.some THEN ParseBusInfo
    ELSE IF address.tag # "Ok" THEN ParseIntErr
    ELSE IF bus_number.value = 9191 THEN BusOk("ISA", 0, address.value)
    ELSE IF \E a \in adapters : a.number = bus_number.value /\ a.content = "ISA"
         THEN BusOk("ISA", 0, address.value)
         ELSE BusOk("I2C", bus_number.value, address.value)

\* The "i2c" arm: device_name.split('-'), i16::from_str, u32::from_str_radix.
BusFromI2C(device_name, adapters) ==
    I2CBus(I16FromStr(Get(Split(device_name, "-"), 0).text),
           Get(Split(device_name, "-"), 1),
           U32FromStrRadix16(Get(Split(device_name, "-"), 1).text),
           adapters)

\* The "spi" arm after its parses; end is the device name after "spi".
SPIBus(has_prefix, a1, address, bus_number) ==
    IF ~has_prefix THEN ParseBusInfo
    ELSE IF ~a1.some THEN ParseBusInfo
    ELSE IF address.tag # "Ok" THEN ParseIntErr
    ELSE IF bus_number.tag # "Ok" THEN ParseIntErr
    ELSE BusOk("SPI", bus_number.value, address.value)

SpiEnd(device_name) == Split(Slice(device_name, Len("spi") + 1, Len(device_name)), ".")

\* The "spi" arm.
BusFromSPI(device_name) ==
    SPIBus(IsPrefix("spi", device_name) /\ Len(device_name) > Len("spi"),
           Get(SpiEnd(device_name), 1),
           U32FromStr(Get(SpiEnd(device_name), 1).text),
           I16FromStr(Get(SpiEnd(device_name), 0).text))

\* x << n on u32, 3 <= n < 32: the bits shifted out at the top are lost.
Shl(x, n) == (x % (2 ^ (32 - n))) * (2 ^ n)

\* The "pci" arm with the slot shifted by 7 bits.
PCIBus_Shift7(domain, a1, bus, slot, b1, fn) ==
    IF domain.tag # "Ok" \/ bus.tag # "Ok" \/ slot.tag # "Ok" \/ fn.tag # "Ok"
    THEN ParseIntErr
    ELSE BusOk("PCI", 0, Shl(domain.value, 16) + Shl(bus.value, 8) + Shl(slot.value, 7) + fn.value)

\* The "pci" arm after its parses: address = (domain << 16) + (bus << 8) + (slot << 3) + fn.
PCIBus(domain, a1, bus, slot, b1, fn) ==
    IF domain.tag # "Ok" THEN ParseIntErr
    ELSE IF ~a1.some THEN ParseBusInfo
    ELSE IF bus.tag # "Ok" THEN ParseIntErr
    ELSE IF slot.tag # "Ok" THEN ParseIntErr
    ELSE IF ~b1.some THEN ParseBusInfo
    ELSE IF fn.tag # "Ok" THEN ParseIntErr
    ELSE BusOk("PCI", 0, Shl(domain.value, 16) + Shl(bus.value, 8) + Shl(slot.value, 3) + fn.value)

\* args.last().split('.')
PciArgsBis(device_name) ==
    Split(Split(device_name, ":")[Len(Split(device_name, ":"))], ".")

\* The "pci" arm.
BusFromPCI(device_name) ==
    PCIBus(U32FromStrRadix16(Get(Split(device_name, ":"), 0).text),
           Get(Split(device_name, ":"), 1),
           U32FromStrRadix16(Get(Split(device_name, ":"), 1).text),
           U32FromStrRadix16(Get(PciArgsBis(device_name), 0).text),
           Get(PciArgsBis(device_name), 1),
           U32FromStrRadix16(Get(PciArgsBis(device_name), 1).text))

\* The "scsi" arm after its parses: address = (bus << 8) + (slot << 4) + fn.
SCSIBus(args, bus, slot, fn, bus_number) ==
    IF ~Get(args, 1).some THEN ParseBusInfo
    ELSE IF bus.tag # "Ok" THEN ParseIntErr
    ELSE IF ~Get(args, 2).some THEN ParseBusInfo
    ELSE IF slot.tag # "Ok" THEN ParseIntErr
    ELSE IF ~Get(args, 3).some THEN ParseBusInfo
    ELSE IF fn.tag # "Ok" THEN ParseIntErr
    ELSE IF bus_number.tag # "Ok" THEN ParseIntErr
    ELSE BusOk("SCSI", bus_number.value, Shl(bus.value, 8) + Shl(slot.value, 4) + fn.value)

\* The "scsi" arm.
BusFromSCSI(device_name) ==
    SCSIBus(Split(device_name, ":"),
            U32FromStr(Get(Split(device_name, ":"), 1).text),
            U32FromStr(Get(Split(device_name, ":"), 2).text),
            U32FromStrRadix16(Get(Split(device_name, ":"), 3).text),
            I16FromStr(Get(Split(device_name, ":"), 0).text))

\* get_chip_bus_from_name with a default bus for the subsystems it does not know.
get_chip_bus_from_name_Default(subsytem, device_name, adapters) ==
    CASE subsytem = "i2c" -> BusFromI2C(device_name, adapters)
      [] subsytem = "spi" -> BusFromSPI(device_name)
      [] subsytem = "pci" -> BusFromPCI(device_name)
      [] subsytem = "scsi" -> BusFromSCSI(device_name)
      [] subsytem \in {"platform", "of_platform"} -> BusOk("ISA", 0, 0)
      [] subsytem = "acpi" -> BusOk("ACPI", 0, 0)
      [] subsytem = "hid" -> BusOk("HID", 0, 0)
      [] OTHER -> BusOk("MDIO", 0, 0)

get_chip_bus_from_name(subsytem, device_name, adapters) ==
    CASE subsytem = "i2c" -> BusFromI2C(device_name, adapters)
      [] subsytem = "spi" -> BusFromSPI(device_name)
      [] subsytem = "pci" -> BusFromPCI(device_name)
      [] subsytem = "scsi" -> BusFromSCSI(device_name)
      [] subsytem \in {"platform", "of_platform"} -> BusOk("ISA", 0, 0)
      [] subsytem = "acpi" -> BusOk("ACPI", 0, 0)
      [] subsytem = "hid" -> BusOk("HID", 0, 0)
      [] subsytem = "mdio_bus" -> BusOk("MDIO", 0, 0)
      [] OTHER -> UnknownDevice

-----------------------------------------------------------------------------
(* get_chip_bus_from_name as a state machine: one call on one device       *)

MaxField == 2

\* Hex and decimal fields of device names: small values, the values at the edge of
\* the field widths of the composite addresses, and the edge of i16.
HexFields == {LowerHex(n) : n \in 0..MaxField} \cup {"00", "0048", "1f", "20", "ff", "7fff"}

DecFields == {ToDecimal(n) : n \in 0..MaxField} \cup {"15", "16", "32767", "32768"}

PciNames ==
    {d \o ":" \o b \o ":" \o sl \o "." \o f :
        d \in {"0000", "0001"}, b \in {"00", "01", "ff"},
        sl \in {"00", "1f", "20", "ff"}, f \in {"0", "3", "7", "8"}}

ScsiNames ==
    {h \o ":" \o b \o ":" \o sl \o ":" \o l :
        h \in {"0", "1", "32767", "32768"}, b \in {"0", "1"},
        sl \in {"0", "15", "16"}, l \in {"0", "f", "10"}}

I2CNames ==
    {n \o "-" \o h : n \in DecFields \cup {"9191", "-1"},
                     h \in HexFields \cup {"004C", "123456789", "zz"}}

DeviceNames ==
    PciNames \cup ScsiNames \cup I2CNames
    \cup {"spi" \o b \o "." \o c : b \in DecFields, c \in DecFields}
    \cup {"", "x", "coretemp.0", "spi", "spi0", "9191", "0000:00:1f", "0:0:0", "2-", "-48"}

SubsystemNames ==
    {"i2c", "spi", "pci", "scsi", "platform", "of_platform", "acpi", "hid", "mdio_bus",
     "foo", "usb", ""}

\* The adapter name files: none, or one for adapter n with some text.
AdapterFiles ==
    {{}} \cup {{[number |-> n, content |-> c]} :
                n \in {MaxField, 9191}, c \in {"ISA", "ISA\n", "SMBus I801 adapter\n", ""}}

InitBus ==
    /\ busArgs \in [subsytem : SubsystemNames, device_name : DeviceNames,
                     adapters : AdapterFiles]
    /\ busRet = NoResult
    /\ chip = NoChip
    /\ chipName = ""
    /\ name = ""
    /\ props = NoResult
    /\ sf = NoSubfeature
    /\ file = NoFile
    /\ content0 = ""
    /\ ret = NoCall
    /\ prev = NoCall
    /\ listable = FALSE
    /\ i2c_adapters = {}
    /\ entries = <<>>
    /\ chips = <<>>
    /\ outcome = "Idle"
    /\ chipEntry = NoEntry
    /\ chipAdapters = {}
    /\ attempts = <<>>
    /\ resolved = NoResult
    /\ sysfs_i2c = NoSysfsI2C
    /\ context = NoResult
    /\ chipBus = NoResult
    /\ adapterName = NoResult
    /\ feature = NoFeature
    /\ labelDir = NoLabelDir
    /\ labelDir0 = NoLabelDir
    /\ labelRet = NoResult
    /\ sessFiles = NoSessFiles
    /\ sessCtx = <<>>
    /\ snapshot = NoResult
    /\ second = NoResult
    /\ sessOp = NoSessOp
    /\ scaleArg = NoScaleArg
    /\ scaleRaw = ""
    /\ scaleRet = NoResult
    /\ confStmts = <<>>
    /\ confText = ""
    /\ confRet = NoResult

GetChipBus ==
    /\ busRet = NoResult
    /\ busRet' = get_chip_bus_from_name(busArgs.subsytem, busArgs.device_name,
                                        busArgs.adapters)
    /\ UNCHANGED busArgs

-----------------------------------------------------------------------------
(* Discovery: Subfeature::from_path, Chip::read_dynamic_chip,              *)
(* Chip::from_path and the loop body of read_sysfs_chips                   *)

S_IRUSR == 256
S_IWUSR == 128

\* (st_mode & bit) == bit, for a one-bit mask.
HasBit(st_mode, bit) == (st_mode \div bit) % 2 = 1

\* impl From<SubfeatureType> for FeatureType
FeatureTypeOf(sf_type) == sf_type[1]

\* Subfeature::from_path once get_properties_from_name has answered p.
SubfeatureOf(path, f, p) ==
    IF p.tag # "Ok" THEN p
    ELSE [tag |-> "Ok",
          number |-> p.number,
          subfeature |-> [name |-> f.name,
                          path |-> path \o "/" \o f.name,
                          subfeature_type |-> p.sf_type,
                          is_readable |-> HasBit(f.st_mode, S_IRUSR),
                          is_writable |-> HasBit(f.st_mode, S_IWUSR)]]

\* Subfeature::from_path on a directory entry f of the directory at path.
Subfeature_from_path(path, f) == SubfeatureOf(path, f, get_properties_from_name(f.name))

\* The name Feature::new gives to a feature.
FeatureName(feature_type, number) ==
    CASE feature_type = "Voltage" -> "in" \o ToDecimal(number)
      [] feature_type = "Fan" -> "fan" \o ToDecimal(number)
      [] feature_type = "Pwm" -> "pwm" \o ToDecimal(number)
      [] feature_type = "Temperature" -> "temp" \o ToDecimal(number)
      [] feature_type = "Power" -> "power" \o ToDecimal(number)
      [] feature_type = "Energy" -> "energy" \o ToDecimal(number)
      [] feature_type = "Current" -> "curr" \o ToDecimal(number)
      [] feature_type = "Humidity" -> "humidity" \o ToDecimal(number)
      [] feature_type = "Cpu" -> "cpu" \o ToDecimal(number) \o "_vid"
      [] feature_type = "Intrusion" -> "intrusion" \o ToDecimal(number)
      [] feature_type = "BeepEnable" -> "beep_enable"

\* Feature::push_subfeature accepts a subfeature of the feature's own type only.
push_subfeature_ok(feature_type, subfeature) ==
    FeatureTypeOf(subfeature.subfeature_type) = feature_type

\* A feature map keyed by the feature type alone.
FeatureMap_ByType(path, found) ==
    LET ok == {r \in found : r.tag = "Ok"}
        key(r) == FeatureTypeOf(r.subfeature.subfeature_type)
    IN  IF \E r \in found : r.tag = "Panic" THEN [tag |-> "Panic"]
        ELSE [tag |-> "Ok",
              features |->
                  {[dir |-> path,
                    name |-> FeatureName(k, 0),
                    number |-> 0,
                    feature_type |-> k,
                    subfeatures |-> {r.subfeature : r \in {q \in ok : key(q) = k}}]
                   : k \in {key(r) : r \in ok}}]

\* The feature map built from the results of Subfeature::from_path: one feature per
\* (FeatureType, number) key, filled by the files that classify.
FeatureMap(path, found) ==
    LET ok == {r \in found : r.tag = "Ok"}
        key(r) == <<FeatureTypeOf(r.subfeature.subfeature_type), r.number>>
    IN  IF \E r \in found : r.tag = "Panic" THEN [tag |-> "Panic"]
        ELSE IF \E r \in ok : ~push_subfeature_ok(key(r)[1], r.subfeature)
             THEN [tag |-> "Panic"]     \* unwrap() of FeatureError::SubfeatureType
             ELSE [tag |-> "Ok",
                   features |->
                       {[dir |-> path,
                         name |-> FeatureName(k[1], k[2]),
                         number |-> k[2],
                         feature_type |-> k[1],
                         subfeatures |-> {r.subfeature : r \in {q \in ok : key(q) = k}}]
                        : k \in {key(r) : r \in ok}}]

\* read_dynamic_chip without the filter on the file type.
read_dynamic_chip_AllEntries(path, dir) ==
    IF ~dir.listable THEN [tag |-> "Err", error |-> "Io"]
    ELSE FeatureMap(path, {Subfeature_from_path(path, f) : f \in dir.files})

\* Chip::read_dynamic_chip on the directory dir found at path: only regular files
\* are looked at.
read_dynamic_chip(path, dir) ==
    IF ~dir.listable THEN [tag |-> "Err", error |-> "Io"]
    ELSE FeatureMap(path, {Subfeature_from_path(path, f) :
                              f \in {g \in dir.files : g.kind = "file"}})

\* Chip::from_path once the name attribute, the bus and the features are known.
ChipOf(hwmon_path, prefix, bus, dyn) ==
    IF prefix.tag # "Ok" THEN [tag |-> "Err", error |-> "Io"]
    ELSE IF bus.tag # "Ok" THEN bus
    ELSE IF dyn.tag # "Ok" THEN dyn
    ELSE [tag |-> "Ok",
          chip |-> [path |-> hwmon_path,
                    prefix |-> prefix.text,
                    bus_type |-> bus.bus_type,
                    bus_number |-> bus.bus_number,
                    address |-> bus.address,
                    features |-> dyn.features]]

\* Chip::from_path: hwmon_path and its directory, the device (some = FALSE for None).
Chip_from_path(hwmon_path, dir, dev, adapters) ==
    ChipOf(hwmon_path,
           sysfs_read_file(dir.name_attr),
           IF dev.some
           THEN IF dev.subsystem.present
                THEN get_chip_bus_from_name(dev.subsystem.name, dev.dev_name, adapters)
                ELSE [tag |-> "Err", error |-> "Io"]
           ELSE BusOk("Virtual", 0, 0),
           read_dynamic_chip(hwmon_path, dir))

HWMON_PATH == "/sys/class/hwmon"

\* A loop body that gives up after the first error.
SecondAttempt_Never(first, e, adapters) == first

\* The second attempt of read_sysfs_chips, made on the device path when the entry
\* has a device link and the first attempt returned an error.
SecondAttempt(first, e, adapters) ==
    IF e.device.some /\ first.tag = "Err"
    THEN Chip_from_path(HWMON_PATH \o "/" \o e.name \o "/device", e.device.dir,
                        e.device, adapters)
    ELSE first

\* The loop body of read_sysfs_chips for a readable entry e: the chip it resolves to.
EntryChip(e, adapters) ==
    SecondAttempt(Chip_from_path(HWMON_PATH \o "/" \o e.name, e.hwmon, e.device, adapters),
                  e, adapters)

-----------------------------------------------------------------------------
(* read_sysfs_chips as a state machine: the entries of /sys/class/hwmon    *)
(* come one by one out of read_dir                                         *)

MaxEntries == 2
MaxFiles == 2

AttrFiles ==
    {[name |-> n, kind |-> "file", st_mode |-> m] :
        n \in {"temp1_input", "temp1_max"}, m \in {420}}
    \cup {[name |-> "unrelated_file", kind |-> "file", st_mode |-> 292],
          [name |-> "temp4294967296_input", kind |-> "file", st_mode |-> 292],
          [name |-> "temp1_input", kind |-> "dir", st_mode |-> 493]}

\* The listings of a directory: at most MaxFiles entries, no name twice.
FileSets ==
    {fs \in SUBSET AttrFiles :
        /\ Cardinality(fs) <= MaxFiles
        /\ \A f, g \in fs : f.name = g.name => f = g}

NameAttrs == {[present |-> TRUE, content |-> "lm75\n"], [present |-> FALSE, content |-> ""]}

HwmonDirs ==
    [name_attr : NameAttrs, listable : {TRUE}, files : FileSets]
    \cup {[name_attr |-> [present |-> TRUE, content |-> "lm75\n"], listable |-> FALSE,
           files |-> {}]}

DeviceDirs ==
    {d \in HwmonDirs :
        /\ d.listable
        /\ d.files = IF d.name_attr.present
                     THEN {[name |-> "temp1_input", kind |-> "file", st_mode |-> 420]}
                     ELSE {}}

Subsystems ==
    {[present |-> TRUE, name |-> s] : s \in {"i2c", "platform", "foo"}}
    \cup {[present |-> FALSE, name |-> ""]}

Devices ==
    {d \in [some : {TRUE}, dev_name : {"2-0048", "x"}, subsystem : Subsystems,
            dir : DeviceDirs] :
        d.dev_name = "2-0048" => d.subsystem.name = "i2c"}
    \cup {[some |-> FALSE, dev_name |-> "", subsystem |-> [present |-> FALSE, name |-> ""],
           dir |-> CHOOSE d \in DeviceDirs : ~d.name_attr.present]}

\* The i-th entry read_dir can yield: a readable entry, or an error in its place.
Entries(i) ==
    [readable : {TRUE}, name : {"hwmon" \o ToDecimal(i)}, hwmon : HwmonDirs, device : Devices]
    \cup {[readable |-> FALSE, name |-> "hwmon" \o ToDecimal(i),
           hwmon |-> CHOOSE d \in HwmonDirs : ~d.listable,
           device |-> CHOOSE d \in Devices : ~d.some]}

AdapterWorlds == {{}, {[number |-> 2, content |-> "ISA"]}}

InitEnum ==
    /\ listable \in BOOLEAN
    /\ i2c_adapters \in AdapterWorlds
    /\ entries = <<>>
    /\ chips = <<>>
    /\ outcome = "Running"
    /\ name = ""
    /\ props = NoResult
    /\ sf = NoSubfeature
    /\ file = NoFile
    /\ content0 = ""
    /\ ret = NoCall
    /\ prev = NoCall
    /\ chip = NoChip
    /\ chipName = ""
    /\ busArgs = NoBusArgs
    /\ busRet = NoResult
    /\ chipEntry = NoEntry
    /\ chipAdapters = {}
    /\ attempts = <<>>
    /\ resolved = NoResult
    /\ sysfs_i2c = NoSysfsI2C
    /\ context = NoResult
    /\ chipBus = NoResult
    /\ adapterName = NoResult
    /\ feature = NoFeature
    /\ labelDir = NoLabelDir
    /\ labelDir0 = NoLabelDir
    /\ labelRet = NoResult
    /\ sessFiles = NoSessFiles
    /\ sessCtx = <<>>
    /\ snapshot = NoResult
    /\ second = NoResult
    /\ sessOp = NoSessOp
    /\ scaleArg = NoScaleArg
    /\ scaleRaw = ""
    /\ scaleRet = NoResult
    /\ confStmts = <<>>
    /\ confText = ""
    /\ confRet = NoResult

\* std::fs::read_dir(hwmon_path)? fails.
ListFails ==
    /\ ~listable
    /\ outcome = "Running"
    /\ outcome' = "Err"
    /\ UNCHANGED <<listable, i2c_adapters, entries, chips>>

\* One turn of the loop of read_sysfs_chips.
ReadEntry ==
    /\ listable
    /\ outcome = "Running"
    /\ Len(entries) < MaxEntries
    /\ \E e \in Entries(Len(entries)) :
        /\ entries' = Append(entries, e)
        /\ IF ~e.readable
           THEN outcome' = "Err" /\ UNCHANGED chips      \* let entry = entry?;
           ELSE LET r == EntryChip(e, i2c_adapters)
                IN  CASE r.tag = "Panic" -> outcome' = "Panic" /\ UNCHANGED chips
                      [] r.tag = "Ok" -> chips' = Append(chips, r.chip) /\ UNCHANGED outcome
                      [] OTHER -> UNCHANGED <<chips, outcome>>
    /\ UNCHANGED <<listable, i2c_adapters>>

\* The directory has no more entries: Ok(chips).
Return ==
    /\ listable
    /\ outcome = "Running"
    /\ outcome' = "Ok"
    /\ UNCHANGED <<listable, i2c_adapters, entries, chips>>

-----------------------------------------------------------------------------
(* The loop body of read_sysfs_chips as a state machine: one hwmon entry,  *)
(* the first Chip::from_path and, after an error, the second               *)

MaxAttrs == 4

RegularFile(n) == [name |-> n, kind |-> "file", st_mode |-> 420]

\* What a chip directory may hold: attribute files, files that are no attributes
\* (pwm files among them), two names of one feature index, a name whose index
\* exceeds u32, and entries that are no regular files.
ChipDirFiles ==
    {RegularFile(n) : n \in {"temp1_input", "temp1_max", "temp1_max_hyst", "temp01_input",
                             "temp2_input", "fan1_input", "in0_input", "unrelated_file",
                             "name", "uevent", "temp4294967296_input", "pwm1",
                             "pwm1_enable", "cpu0_vid"}}
    \cup {[name |-> "temp1_input", kind |-> "dir", st_mode |-> 493],
          [name |-> "temp1_max", kind |-> "symlink", st_mode |-> 511],
          [name |-> "fan1_input", kind |-> "unknown", st_mode |-> 292]}

ChipDirListings ==
    {fs \in SUBSET ChipDirFiles :
        /\ Cardinality(fs) <= MaxAttrs
        /\ \A f, g \in fs : f.name = g.name => f = g}

\* Entries with any listing and no device, or a platform device.
ListingEntries ==
    [readable : {TRUE}, name : {"hwmon0"},
     hwmon : [name_attr : NameAttrs, listable : {TRUE}, files : ChipDirListings],
     device : {d \in Devices : ~d.some \/ (d.subsystem.name = "platform" /\ d.dir.files = {})}]

DeviceSubsystems ==
    {[present |-> TRUE, name |-> s] : s \in SubsystemNames} \cup {[present |-> FALSE, name |-> ""]}

\* Entries with any device and a short listing.
DeviceEntries ==
    [readable : {TRUE}, name : {"hwmon0"},
     hwmon : {d \in HwmonDirs : Cardinality(d.files) <= 1},
     device : [some : {TRUE}, dev_name : {"2-0048", "coretemp.0", "x"},
               subsystem : DeviceSubsystems,
               dir : {d \in HwmonDirs : Cardinality(d.files) <= 1}]]

InitChip ==
    /\ chipEntry \in ListingEntries \cup DeviceEntries
    /\ chipAdapters \in AdapterWorlds
    /\ attempts = <<>>
    /\ resolved = NoResult
    /\ busArgs = NoBusArgs
    /\ busRet = NoResult
    /\ chip = NoChip
    /\ chipName = ""
    /\ name = ""
    /\ props = NoResult
    /\ sf = NoSubfeature
    /\ file = NoFile
    /\ content0 = ""
    /\ ret = NoCall
    /\ prev = NoCall
    /\ listable = FALSE
    /\ i2c_adapters = {}
    /\ entries = <<>>
    /\ chips = <<>>
    /\ outcome = "Idle"
    /\ sysfs_i2c = NoSysfsI2C
    /\ context = NoResult
    /\ chipBus = NoResult
    /\ adapterName = NoResult
    /\ feature = NoFeature
    /\ labelDir = NoLabelDir
    /\ labelDir0 = NoLabelDir
    /\ labelRet = NoResult
    /\ sessFiles = NoSessFiles
    /\ sessCtx = <<>>
    /\ snapshot = NoResult
    /\ second = NoResult
    /\ sessOp = NoSessOp
    /\ scaleArg = NoScaleArg
    /\ scaleRaw = ""
    /\ scaleRet = NoResult
    /\ confStmts = <<>>
    /\ confText = ""
    /\ confRet = NoResult

EntryPath == HWMON_PATH \o "/" \o chipEntry.name

\* Chip::from_path(path, link_path or None, context)
FirstAttempt ==
    /\ attempts = <<>>
    /\ LET first == Chip_from_path(EntryPath, chipEntry.hwmon, chipEntry.device, chipAdapters)
       IN  /\ attempts' = <<[path |-> EntryPath, result |-> first]>>
           /\ resolved' = IF chipEntry.device.some /\ first.tag = "Err"
                           THEN NoResult ELSE first
    /\ UNCHANGED <<chipEntry, chipAdapters>>

\* Err(e) => Chip::from_path(link_path, link_path, context)
Retry ==
    /\ Len(attempts) = 1
    /\ resolved = NoResult
    /\ attempts' = Append(attempts,
                          [path |-> EntryPath \o "/device",
                           result |-> SecondAttempt(attempts[1].result, chipEntry,
                                                    chipAdapters)])
    /\ resolved' = SecondAttempt(attempts[1].result, chipEntry, chipAdapters)
    /\ UNCHANGED <<chipEntry, chipAdapters>>

-----------------------------------------------------------------------------
(* Context: BusAdapter::from_sysfs_i2c, read_sysfs_busses, Context::new    *)
(* and Bus::adapter_name                                                   *)

ParseBusName == [tag |-> "Err", error |-> "ParseBusName"]
IoError == [tag |-> "Err", error |-> "Io"]

NoAdapter == [tag |-> "Ok", some |-> FALSE, adapter |-> [name |-> "", bus_type |-> "I2C", bus_number |-> 0]]

SomeAdapter(name_text, bus_number) ==
    [tag |-> "Ok", some |-> TRUE,
     adapter |-> [name |-> name_text, bus_type |-> "I2C", bus_number |-> bus_number]]

\* from_sysfs_i2c after the split: i16::from_str(digits)?, the legacy ISA number,
\* sysfs_read_attr(path, "name").or_else(|_| sysfs_read_attr(path, "device/name"))?
AdapterOf(bus_number, name_attr, device_name_attr) ==
    IF bus_number.tag # "Ok" THEN ParseIntErr
    ELSE IF bus_number.value = 9191 THEN NoAdapter
    ELSE IF name_attr.tag = "Ok" THEN SomeAdapter(name_attr.text, bus_number.value)
    ELSE IF device_name_attr.tag = "Ok" THEN SomeAdapter(device_name_attr.text, bus_number.value)
    ELSE IoError

I2C_PREFIX == "i2c-"

\* BusAdapter::from_sysfs_i2c(path): e is the directory entry at path.
from_sysfs_i2c(e) ==
    IF ~IsPrefix(I2C_PREFIX, e.file_name) \/ ~(Len(e.file_name) > Len(I2C_PREFIX))
    THEN ParseBusName
    ELSE AdapterOf(I16FromStr(Slice(e.file_name, Len(I2C_PREFIX) + 1, Len(e.file_name))),
                   sysfs_read_file(e.name), sysfs_read_file(e.device_name))

\* The loop of read_sysfs_busses that drops the entries it cannot use.
RECURSIVE ScanStep_Skip(_, _, _)
ScanStep_Skip(rest, res, r) ==
    LET got == IF r.tag = "Ok" /\ r.some THEN Append(res, r.adapter) ELSE res
    IN  IF rest = <<>> THEN [tag |-> "Ok", adapters |-> got]
        ELSE ScanStep_Skip(Tail(rest), got,
                           IF Head(rest).readable THEN from_sysfs_i2c(Head(rest))
                           ELSE IoError)

\* One turn of the loop of read_sysfs_busses: r is what `entry?` and from_sysfs_i2c
\* gave for the entry at hand, rest the entries still to come, res the Vec so far.
RECURSIVE ScanStep(_, _, _)
ScanStep(rest, res, r) ==
    IF r.tag = "Err" THEN r
    ELSE IF rest = <<>>
         THEN [tag |-> "Ok", adapters |-> IF r.some THEN Append(res, r.adapter) ELSE res]
         ELSE ScanStep(Tail(rest), IF r.some THEN Append(res, r.adapter) ELSE res,
                       IF Head(rest).readable THEN from_sysfs_i2c(Head(rest))
                       ELSE IoError)

\* fs::read_dir(dir)? followed by the loop.
ScanDir(dir) ==
    IF ~dir.listable THEN IoError ELSE ScanStep(dir.entries, <<>>, NoAdapter)

\* read_sysfs_busses: class/i2c-adapter if it is a directory, bus/i2c/devices otherwise.
read_sysfs_busses(sysfs) ==
    IF sysfs.class.is_dir THEN ScanDir(sysfs.class) ELSE ScanDir(sysfs.devices)

\* Context::new without the sensorsconf feature.
Context_new(sysfs) == read_sysfs_busses(sysfs)

None == [some |-> FALSE, text |-> ""]
Some(text) == [some |-> TRUE, text |-> text]

\* The loop of the I2C arm of adapter_name from position i of the Vec on.
RECURSIVE FindAdapter(_, _, _, _)
FindAdapter(adapters, bus_type, bus_number, i) ==
    IF i > Len(adapters) THEN None
    ELSE IF adapters[i].bus_type = bus_type /\ adapters[i].bus_number = bus_number
         THEN Some(adapters[i].name)
         ELSE FindAdapter(adapters, bus_type, bus_number, i + 1)

\* adapter_name that takes the first I2C adapter whatever the bus number is.
adapter_name_AnyNumber(b, adapters) ==
    CASE b.bus_type = "ISA" -> Some("ISA adapter")
      [] b.bus_type = "PCI" -> Some("PCI adapter")
      [] b.bus_type = "SPI" -> Some("SPI adapter")
      [] b.bus_type = "Virtual" -> Some("Virtual device")
      [] b.bus_type = "ACPI" -> Some("ACPI interface")
      [] b.bus_type = "HID" -> Some("HID adapter")
      [] b.bus_type = "MDIO" -> Some("MDIO adapter")
      [] b.bus_type = "SCSI" -> Some("SCSI adapter")
      [] b.bus_type = "I2C" ->
            IF Len(adapters) > 0 THEN Some(adapters[1].name) ELSE None

\* Bus::adapter_name: adapters is self.context.adapters().
adapter_name(b, adapters) ==
    CASE b.bus_type = "ISA" -> Some("ISA adapter")
      [] b.bus_type = "PCI" -> Some("PCI adapter")
      [] b.bus_type = "SPI" -> Some("SPI adapter")
      [] b.bus_type = "Virtual" -> Some("Virtual device")
      [] b.bus_type = "ACPI" -> Some("ACPI interface")
      [] b.bus_type = "HID" -> Some("HID adapter")
      [] b.bus_type = "MDIO" -> Some("MDIO adapter")
      [] b.bus_type = "SCSI" -> Some("SCSI adapter")
      [] b.bus_type = "I2C" -> FindAdapter(adapters, b.bus_type, b.bus_number, 1)

-----------------------------------------------------------------------------
(* The state machine of the context: Context::new once, then the Bus of a  *)
(* chip as Chip::from_path makes it, then Bus::adapter_name on that Bus    *)

MaxAdapters == 2
MaxAdapterNumber == 1

AdapterDirNames ==
    {I2C_PREFIX \o ToDecimal(n) : n \in 0..MaxAdapterNumber}
    \cup {"i2c-01", "i2c-9191", "i2c-32768", "i2c-", "i2c-x", "0-0048"}

UnreadableEntry == [readable |-> FALSE, file_name |-> "", name |-> NoFile, device_name |-> NoFile]

AdapterEntries ==
    {UnreadableEntry}
    \cup [readable : {TRUE}, file_name : AdapterDirNames,
          name : {NoFile, [present |-> TRUE, content |-> "SMBus I801 adapter at f000\n"]},
          device_name : {NoFile, [present |-> TRUE, content |-> "bt878 #0 [sw]\n"]}]

\* The listings of a directory: an entry name occurs once.
AdapterListings ==
    {s \in UNION {[1..n -> AdapterEntries] : n \in 0..MaxAdapters} :
        \A i, j \in DOMAIN s : (i # j /\ s[i].readable /\ s[j].readable)
                                    => s[i].file_name # s[j].file_name}


AdapterDirs ==
    {[is_dir |-> TRUE, listable |-> FALSE, entries |-> <<>>]}
    \cup [is_dir : {TRUE}, listable : {TRUE}, entries : AdapterListings]

\* What the directory that is not scanned holds.
OtherDirs ==
    {NotADir,
     [is_dir |-> TRUE, listable |-> TRUE,
      entries |-> <<[readable |-> TRUE, file_name |-> "i2c-7",
                     name |-> [present |-> TRUE, content |-> "other adapter\n"],
                     device_name |-> NoFile]>>]}

\* The files class/i2c-adapter/i2c-N/device/name that get_chip_bus_from_name opens.
DeviceNameFiles(sysfs) ==
    {[number |-> n, content |-> sysfs.class.entries[i].device_name.content] :
        <<i, n>> \in {p \in (DOMAIN sysfs.class.entries) \X (0..MaxAdapterNumber) :
                        /\ sysfs.class.entries[p[1]].readable
                        /\ sysfs.class.entries[p[1]].file_name = I2C_PREFIX \o ToDecimal(p[2])
                        /\ sysfs.class.entries[p[1]].device_name.present}}

\* The devices of the chips: none (a virtual chip), or a subsystem and a device name.
CtxDevices ==
    {[some |-> FALSE, subsystem |-> "", dev_name |-> ""]}
    \cup {[some |-> TRUE, subsystem |-> "i2c", dev_name |-> n \o "-0048"] :
            n \in {ToDecimal(k) : k \in 0..(MaxAdapterNumber + 1)} \cup {"9191"}}
    \cup {[some |-> TRUE, subsystem |-> s[1], dev_name |-> s[2]] :
            s \in {<<"pci", "0000:00:1f.3">>, <<"spi", "spi0.1">>, <<"scsi", "0:0:0:0">>,
                   <<"platform", "coretemp.0">>, <<"acpi", "x">>, <<"hid", "x">>,
                   <<"mdio_bus", "x">>, <<"usb", "x">>}}

InitContext ==
    /\ sysfs_i2c \in
            [class : AdapterDirs, devices : OtherDirs]
            \cup [class : {NotADir}, devices : AdapterDirs \cup {NotADir}]
    /\ context = NoResult
    /\ chipBus = NoResult
    /\ adapterName = NoResult
    /\ chip = NoChip
    /\ chipName = ""
    /\ name = ""
    /\ props = NoResult
    /\ sf = NoSubfeature
    /\ file = NoFile
    /\ content0 = ""
    /\ ret = NoCall
    /\ prev = NoCall
    /\ listable = FALSE
    /\ i2c_adapters = {}
    /\ entries = <<>>
    /\ chips = <<>>
    /\ outcome = "Idle"
    /\ chipEntry = NoEntry
    /\ chipAdapters = {}
    /\ attempts = <<>>
    /\ resolved = NoResult
    /\ busArgs = NoBusArgs
    /\ busRet = NoResult
    /\ feature = NoFeature
    /\ labelDir = NoLabelDir
    /\ labelDir0 = NoLabelDir
    /\ labelRet = NoResult
    /\ sessFiles = NoSessFiles
    /\ sessCtx = <<>>
    /\ snapshot = NoResult
    /\ second = NoResult
    /\ sessOp = NoSessOp
    /\ scaleArg = NoScaleArg
    /\ scaleRaw = ""
    /\ scaleRet = NoResult
    /\ confStmts = <<>>
    /\ confText = ""
    /\ confRet = NoResult

\* Context::new(None)
NewContext ==
    /\ context = NoResult
    /\ context' = Context_new(sysfs_i2c)
    /\ UNCHANGED <<sysfs_i2c, chipBus, adapterName>>

\* The bus part of Chip::from_path(hwmon_path, dev_path, context): Virtual and 0
\* without a device, what get_chip_bus_from_name returns with one.
BusOfChip ==
    /\ context.tag = "Ok"
    /\ chipBus = NoResult
    /\ \E d \in CtxDevices :
        chipBus' = IF d.some
               THEN get_chip_bus_from_name(d.subsystem, d.dev_name,
                                           DeviceNameFiles(sysfs_i2c))
               ELSE BusOk("Virtual", 0, 0)
    /\ UNCHANGED <<sysfs_i2c, context, adapterName>>

\* chip.bus().adapter_name()
AdapterName ==
    /\ chipBus # NoResult
    /\ chipBus.tag = "Ok"
    /\ adapterName = NoResult
    /\ adapterName' = adapter_name(chipBus, context.adapters)
    /\ UNCHANGED <<sysfs_i2c, context, chipBus>>

-----------------------------------------------------------------------------
(* Feature::label and Feature::read_sysfs_label                            *)

\* sysfs_read_attr(dir, attr): files are the readable files of dir.
sysfs_read_attr(files, attr) ==
    IF \E f \in files : f.name = attr
    THEN sysfs_read_file([present |-> TRUE,
                          content |-> (CHOOSE f \in files : f.name = attr).content])
    ELSE sysfs_read_file(NoFile)

\* Feature::read_sysfs_label
read_sysfs_label(f, files) == sysfs_read_attr(files, f.name \o "_label")

\* The label read once: label if Ok, else the name.
LabelOr(f, r) == IF r.tag = "Ok" THEN r.text ELSE f.name

\* Feature::label that never looks at sysfs.
label_NameOnly(f, files) == f.name

\* Feature::label
label(f, files) == LabelOr(f, read_sysfs_label(f, files))

-----------------------------------------------------------------------------
(* The state machine of a label: a feature of a discovered chip, label     *)
(* files that change after discovery, then Feature::label                  *)

MaxLabels == 2

LabelAttrNames ==
    {"temp1_input", "temp01_input", "temp1_max", "in0_input", "fan2_input", "cpu0_vid",
     "beep_enable", "power1_average_interval", "intrusion0_alarm", "pwm1", "pwm1_enable"}

\* The attribute files of the chip directory at discovery.
LabelAttrSets == {ns \in SUBSET LabelAttrNames : Cardinality(ns) \in 1..2}

CHIP_DIR == "/sys/class/hwmon/hwmon0"

\* The features Chip::read_dynamic_chip makes of the regular files named ns.
FeaturesOf(ns) ==
    read_dynamic_chip(CHIP_DIR,
                      [name_attr |-> [present |-> TRUE, content |-> "chip\n"],
                       listable |-> TRUE,
                       files |-> {RegularFile(n) : n \in ns}]).features

LabelFileNames ==
    {"temp1_label", "temp01_label", "in0_label", "fan2_label", "cpu0_vid_label",
     "cpu0_label", "beep_enable_label", "power1_label", "intrusion0_label"}

LabelTexts == {"Core 0\n", " CPU  \n", ""}

LabelFiles == [name : LabelFileNames, content : LabelTexts]

\* The label files of the directory: at most MaxLabels, a name occurs once.
LabelDirs ==
    {fs \in {{s[i] : i \in DOMAIN s} :
                s \in UNION {[1..n -> LabelFiles] : n \in 0..MaxLabels}} :
        \A f, g \in fs : f.name = g.name => f = g}

InitLabel ==
    /\ feature \in UNION {FeaturesOf(ns) : ns \in LabelAttrSets}
    /\ labelDir \in {fs \in LabelDirs : Cardinality(fs) <= 1}
    /\ labelDir0 = labelDir
    /\ labelRet = NoResult
    /\ chip = NoChip
    /\ chipName = ""
    /\ name = ""
    /\ props = NoResult
    /\ sf = NoSubfeature
    /\ file = NoFile
    /\ content0 = ""
    /\ ret = NoCall
    /\ prev = NoCall
    /\ listable = FALSE
    /\ i2c_adapters = {}
    /\ entries = <<>>
    /\ chips = <<>>
    /\ outcome = "Idle"
    /\ chipEntry = NoEntry
    /\ chipAdapters = {}
    /\ attempts = <<>>
    /\ resolved = NoResult
    /\ sysfs_i2c = NoSysfsI2C
    /\ context = NoResult
    /\ chipBus = NoResult
    /\ adapterName = NoResult
    /\ busArgs = NoBusArgs
    /\ busRet = NoResult
    /\ sessFiles = NoSessFiles
    /\ sessCtx = <<>>
    /\ snapshot = NoResult
    /\ second = NoResult
    /\ sessOp = NoSessOp
    /\ scaleArg = NoScaleArg
    /\ scaleRaw = ""
    /\ scaleRet = NoResult
    /\ confStmts = <<>>
    /\ confText = ""
    /\ confRet = NoResult

\* The kernel or the user creates, removes or rewrites a label file.
ChangeLabelFile ==
    /\ labelRet = NoResult
    /\ labelDir = labelDir0
    /\ \E f \in LabelFiles :
        /\ f \notin labelDir
        /\ labelDir' \in {{g \in labelDir : g.name # f.name} \cup {f},
                          {g \in labelDir : g.name # f.name}}
        /\ labelDir' # labelDir
        /\ Cardinality(labelDir') <= MaxLabels
    /\ UNCHANGED <<feature, labelDir0, labelRet>>

\* feature.label()
Label ==
    /\ labelRet = NoResult
    /\ labelRet' = [tag |-> "Ok", text |-> label(feature, labelDir)]
    /\ UNCHANGED <<feature, labelDir, labelDir0>>

-----------------------------------------------------------------------------
(* A session: Context, read_sysfs_chips, then operations on the returned   *)
(* chips while sysfs changes                                               *)

MaxOps == 3

SessNames == {"temp1_input", "temp1_label", "fan1_input"}

SessModes == {420, 292}

SessTexts == {"1000\n", "42\n"}

SessFileStates ==
    {[present |-> FALSE, st_mode |-> 0, content |-> ""]}
    \cup [present : {TRUE}, st_mode : SessModes, content : SessTexts]

SessAdapters ==
    {<<>>, <<[name |-> "SMBus I801 adapter at f000", bus_type |-> "I2C", bus_number |-> 0]>>}

SESS_ENTRY == "hwmon0"

\* The entry hwmon0 of /sys/class/hwmon with the files as they are: no device link.
SessEntry(files) ==
    [readable |-> TRUE, name |-> SESS_ENTRY,
     hwmon |-> [name_attr |-> [present |-> TRUE, content |-> "chip\n"],
                listable |-> TRUE,
                files |-> {[name |-> n, kind |-> "file", st_mode |-> files[n].st_mode] :
                            n \in {m \in DOMAIN files : files[m].present}}],
     device |-> [some |-> FALSE, dev_name |-> "",
                 subsystem |-> [present |-> FALSE, name |-> ""], dir |-> NoDir]]

\* chips.push(chip) if let Ok(chip)
PushChip(r) == IF r.tag = "Ok" THEN <<r.chip>> ELSE <<>>

\* read_sysfs_chips(context) with the one entry: a new Vec<Chip>.
read_sysfs_chips(files) ==
    [tag |-> "Ok", chips |-> PushChip(EntryChip(SessEntry(files), {}))]

\* The subfeatures of a collection, each with the feature it belongs to.
SubfeaturesOf(coll) ==
    {[feature |-> f, subfeature |-> s] :
        <<f, s>> \in UNION {UNION {{f} \X f.subfeatures : f \in coll.chips[i].features} :
                              i \in DOMAIN coll.chips}}

FeaturesIn(coll) == UNION {coll.chips[i].features : i \in DOMAIN coll.chips}

\* The attribute file at a path of the chip directory, as sysfs_read_file sees it.
FileAt(files, path) ==
    IF \E n \in DOMAIN files : path = HWMON_PATH \o "/" \o SESS_ENTRY \o "/" \o n
    THEN LET n == CHOOSE m \in DOMAIN files : path = HWMON_PATH \o "/" \o SESS_ENTRY \o "/" \o m
         IN  [present |-> files[n].present, content |-> files[n].content]
    ELSE NoFile

\* A write that lands in every file of the directory.
SysfsWrite_All(files, path, w) ==
    [n \in DOMAIN files |->
        IF files[n].present /\ w.res.tag = "Ok"
        THEN [files[n] EXCEPT !.content = w.file.content] ELSE files[n]]

\* The effect of write_value on sysfs: the file opened at the subfeature's path has
\* the content the write left.
SysfsWrite(files, path, w) ==
    [n \in DOMAIN files |->
        IF path = HWMON_PATH \o "/" \o SESS_ENTRY \o "/" \o n
        THEN [files[n] EXCEPT !.content = w.file.content] ELSE files[n]]

\* The label files of the chip directory.
SessLabelFiles(files) ==
    {[name |-> n, content |-> files[n].content] : n \in {m \in DOMAIN files : files[m].present}}

InitSession ==
    /\ sessFiles \in [SessNames -> SessFileStates]
    /\ sessCtx \in SessAdapters
    /\ snapshot = NoResult
    /\ second = NoResult
    /\ sessOp = NoSessOp
    /\ chip = NoChip
    /\ chipName = ""
    /\ name = ""
    /\ props = NoResult
    /\ sf = NoSubfeature
    /\ file = NoFile
    /\ content0 = ""
    /\ ret = NoCall
    /\ prev = NoCall
    /\ listable = FALSE
    /\ i2c_adapters = {}
    /\ entries = <<>>
    /\ chips = <<>>
    /\ outcome = "Idle"
    /\ chipEntry = NoEntry
    /\ chipAdapters = {}
    /\ attempts = <<>>
    /\ resolved = NoResult
    /\ sysfs_i2c = NoSysfsI2C
    /\ context = NoResult
    /\ chipBus = NoResult
    /\ adapterName = NoResult
    /\ feature = NoFeature
    /\ labelDir = NoLabelDir
    /\ labelDir0 = NoLabelDir
    /\ labelRet = NoResult
    /\ busArgs = NoBusArgs
    /\ busRet = NoResult
    /\ scaleArg = NoScaleArg
    /\ scaleRaw = ""
    /\ scaleRet = NoResult
    /\ confStmts = <<>>
    /\ confText = ""
    /\ confRet = NoResult

\* let chips = read_sysfs_chips(&context)
Enumerate ==
    /\ snapshot = NoResult
    /\ snapshot' = read_sysfs_chips(sessFiles)
    /\ UNCHANGED <<sessFiles, sessCtx, second, sessOp>>

\* A later read_sysfs_chips(&context) on the same Context.
EnumerateAgain ==
    /\ snapshot # NoResult
    /\ sessOp.n < MaxOps
    /\ second' = read_sysfs_chips(sessFiles)
    /\ sessOp' = [n |-> sessOp.n + 1, op |-> "read_sysfs_chips", path |-> "", res |-> NoResult]
    /\ UNCHANGED <<sessFiles, sessCtx, snapshot>>

\* sysfs changes under the library: a file appears, goes away, or has its mode or
\* its content changed.
SysfsChange ==
    /\ snapshot # NoResult
    /\ sessOp.n < MaxOps
    /\ \E n \in SessNames, st \in SessFileStates :
        /\ st # sessFiles[n]
        /\ sessFiles' = [sessFiles EXCEPT ![n] = st]
    /\ sessOp' = [n |-> sessOp.n + 1, op |-> "sysfs", path |-> "", res |-> NoResult]
    /\ UNCHANGED <<sessCtx, snapshot, second>>

\* subfeature.read_value() on a subfeature of the first collection.
SessReadValue ==
    /\ snapshot # NoResult
    /\ sessOp.n < MaxOps
    /\ \E x \in SubfeaturesOf(snapshot) :
        sessOp' = [n |-> sessOp.n + 1, op |-> "read_value", path |-> x.subfeature.path,
                   res |-> read_value(x.subfeature,
                                      FileAt(sessFiles, x.subfeature.path)).res]
    /\ UNCHANGED <<sessFiles, sessCtx, snapshot, second>>

\* subfeature.write_value(v) on a subfeature of the first collection.
SessWriteValue ==
    /\ snapshot # NoResult
    /\ sessOp.n < MaxOps
    /\ \E x \in SubfeaturesOf(snapshot), v \in {0, UNIT} :
        /\ sessOp' = [n |-> sessOp.n + 1, op |-> "write_value", path |-> x.subfeature.path,
                      res |-> write_value(x.subfeature,
                                          FileAt(sessFiles, x.subfeature.path), v).res]
        /\ sessFiles' = SysfsWrite(sessFiles, x.subfeature.path,
                                   write_value(x.subfeature,
                                               FileAt(sessFiles, x.subfeature.path), v))
    /\ UNCHANGED <<sessCtx, snapshot, second>>

\* feature.label() on a feature of the first collection.
SessLabel ==
    /\ snapshot # NoResult
    /\ sessOp.n < MaxOps
    /\ \E f \in FeaturesIn(snapshot) :
        sessOp' = [n |-> sessOp.n + 1, op |-> "label", path |-> f.name \o "_label",
                   res |-> [tag |-> "Ok", text |-> label(f, SessLabelFiles(sessFiles))]]
    /\ UNCHANGED <<sessFiles, sessCtx, snapshot, second>>

-----------------------------------------------------------------------------
(* The scale of every attribute of the tables: the file <tag>1_<suffix> or *)
(* beep_enable is classified and read                                      *)

ScaleArgs ==
    {[tag |-> p[1], suffix |-> p[2]] :
        p \in {q \in (DOMAIN FEATURE_TYPE_MAP) \X TableSuffixes :
                q[2] \in DOMAIN FEATURE_TYPE_MAP[q[1]][2]}}
    \cup {[tag |-> "", suffix |-> "beep_enable"]}

ScaleRawTexts == {"0\n", "1\n"}

\* The name of the attribute file of a tag and a suffix, with index 1.
AttrName(a) == IF a.tag = "" THEN a.suffix ELSE a.tag \o "1_" \o a.suffix

\* read_value of a readable subfeature of the classified type p on the content raw.
ScaledRead(p, raw) ==
    [sf_type |-> p.sf_type,
     scale |-> scale(p.sf_type),
     value |-> read_value([subfeature_type |-> p.sf_type, is_readable |-> TRUE,
                           is_writable |-> FALSE],
                          [present |-> TRUE, content |-> raw]).res]

InitScale ==
    /\ scaleArg \in ScaleArgs
    /\ scaleRaw \in ScaleRawTexts
    /\ scaleRet = NoResult
    /\ chip = NoChip
    /\ chipName = ""
    /\ name = ""
    /\ props = NoResult
    /\ sf = NoSubfeature
    /\ file = NoFile
    /\ content0 = ""
    /\ ret = NoCall
    /\ prev = NoCall
    /\ listable = FALSE
    /\ i2c_adapters = {}
    /\ entries = <<>>
    /\ chips = <<>>
    /\ outcome = "Idle"
    /\ chipEntry = NoEntry
    /\ chipAdapters = {}
    /\ attempts = <<>>
    /\ resolved = NoResult
    /\ sysfs_i2c = NoSysfsI2C
    /\ context = NoResult
    /\ chipBus = NoResult
    /\ adapterName = NoResult
    /\ feature = NoFeature
    /\ labelDir = NoLabelDir
    /\ labelDir0 = NoLabelDir
    /\ labelRet = NoResult
    /\ sessFiles = NoSessFiles
    /\ sessCtx = <<>>
    /\ snapshot = NoResult
    /\ second = NoResult
    /\ sessOp = NoSessOp
    /\ busArgs = NoBusArgs
    /\ busRet = NoResult
    /\ confStmts = <<>>
    /\ confText = ""
    /\ confRet = NoResult

\* Subfeature::from_path on the file, then read_value.
ReadScaled ==
    /\ scaleRet = NoResult
    /\ scaleRet' = ScaledRead(get_properties_from_name(AttrName(scaleArg)), scaleRaw)
    /\ UNCHANGED <<scaleArg, scaleRaw>>

-----------------------------------------------------------------------------
(* The configuration parser: src/hwmon/src/parser.rs                       *)

\* CfgFile::default(): no bus statement and no chip statement.
CfgFile_default == [buses |-> <<>>, chips |-> <<>>]

\* The grammar of the configuration language.  A text is a sequence of lines;
\* a line is blank, or a statement made of a keyword and its arguments, which
\* are separated by blanks.  An argument is either a run of name characters or
\* a text between two double quotes on the same line.
BLANKS == {" ", "\t"}

NAME_CHARS ==
    Digits \cup {"_"} \cup
    {"a", "b", "c", "d", "e", "f", "g", "h", "i", "j", "k", "l", "m",
     "n", "o", "p", "q", "r", "s", "t", "u", "v", "w", "x", "y", "z",
     "A", "B", "C", "D", "E", "F", "G", "H", "I", "J", "K", "L", "M",
     "N", "O", "P", "Q", "R", "S", "T", "U", "V", "W", "X", "Y", "Z"}

QUOTE == "\""

BadToken == [kind |-> "bad", text |-> ""]

\* The position after the run of non-blank characters that starts at i.
RECURSIVE WordEnd(_, _)
WordEnd(line, i) ==
    IF i > Len(line) \/ CharAt(line, i) \in BLANKS THEN i ELSE WordEnd(line, i + 1)

AllNameChars(s) == \A k \in 1..Len(s) : CharAt(s, k) \in NAME_CHARS

RECURSIVE Tokens(_, _)

\* An unquoted argument: every character of the run is a name character.
WordToken(line, i, e) ==
    IF AllNameChars(Slice(line, i, e - 1))
    THEN <<[kind |-> "word", text |-> Slice(line, i, e - 1)]>> \o Tokens(line, e)
    ELSE <<BadToken>>

\* A quoted argument from the quote at i to the next quote at j (0: there is
\* none on the line); a blank or the end of the line follows the closing quote.
QuotedToken(line, i, j) ==
    IF j = 0 THEN <<BadToken>>
    ELSE IF j < Len(line) /\ CharAt(line, j + 1) \notin BLANKS THEN <<BadToken>>
    ELSE <<[kind |-> "quoted", text |-> Slice(line, i + 1, j - 1)]>> \o Tokens(line, j + 1)

\* The arguments of the line from position i on; scanning stops at the first
\* run that is no argument.
Tokens(line, i) ==
    IF i > Len(line) THEN <<>>
    ELSE IF CharAt(line, i) \in BLANKS THEN Tokens(line, i + 1)
    ELSE IF CharAt(line, i) = QUOTE THEN QuotedToken(line, i, FindChar(line, QUOTE, i + 1))
    ELSE WordToken(line, i, WordEnd(line, i))

IsKeyword(tok, word) == tok = [kind |-> "word", text |-> word]

\* The statement a line holds: bus <name> <string>, chip <name>..., label
\* <name> <string>, nothing, or no statement of the language.
Statement(toks) ==
    CASE toks = <<>> -> [rule |-> "blank"]
      [] \E k \in 1..Len(toks) : toks[k] = BadToken -> [rule |-> "error"]
      [] Len(toks) = 3 /\ IsKeyword(toks[1], "bus") ->
            [rule |-> "bus", name |-> toks[2].text, string |-> toks[3].text]
      [] Len(toks) >= 2 /\ IsKeyword(toks[1], "chip") ->
            [rule |-> "chip", names |-> [k \in 1..(Len(toks) - 1) |-> toks[k + 1].text],
             inner |-> <<>>]
      [] Len(toks) = 3 /\ IsKeyword(toks[1], "label") ->
            [rule |-> "label", name |-> toks[2].text, string |-> toks[3].text]
      [] OTHER -> [rule |-> "error"]

\* The pairs of Rule::file: the bus and chip statements in the order of the
\* text, every label statement inside the chip statement it follows.
RECURSIVE FilePairs(_, _, _)
FilePairs(stmts, k, pairs) ==
    IF k > Len(stmts) THEN [tag |-> "Ok", pairs |-> pairs]
    ELSE CASE stmts[k].rule = "blank" -> FilePairs(stmts, k + 1, pairs)
           [] stmts[k].rule \in {"bus", "chip"} ->
                FilePairs(stmts, k + 1, Append(pairs, stmts[k]))
           [] /\ stmts[k].rule = "label"
              /\ pairs # <<>>
              /\ pairs[Len(pairs)].rule = "chip" ->
                FilePairs(stmts, k + 1,
                          [pairs EXCEPT ![Len(pairs)].inner = Append(@, stmts[k])])
           [] OTHER -> [tag |-> "Err"]

LineStatements(lines) == [k \in 1..Len(lines) |-> Statement(Tokens(lines[k], 1))]

\* SensorsConfParser::parse(Rule::file, data)
SensorsConfParser_parse(data) == FilePairs(LineStatements(Split(data, "\n")), 1, <<>>)

parse_pbus(pbus) == [number |-> pbus.name, adapter |-> pbus.string]

parse_plabel(plabel) == [name |-> plabel.name, value |-> plabel.string]

parse_pchip(pchip) ==
    [names |-> pchip.names,
     labels |-> [k \in 1..Len(pchip.inner) |-> parse_plabel(pchip.inner[k])]]

\* for pair in pfile.into_inner(): a bus is pushed to cfg.buses, a chip to
\* cfg.chips.
RECURSIVE PushPairs(_, _, _)
PushPairs(pairs, k, cfg) ==
    IF k > Len(pairs) THEN cfg
    ELSE IF pairs[k].rule = "bus"
         THEN PushPairs(pairs, k + 1, [cfg EXCEPT !.buses = Append(@, parse_pbus(pairs[k]))])
         ELSE PushPairs(pairs, k + 1, [cfg EXCEPT !.chips = Append(@, parse_pchip(pairs[k]))])

parse_pfile(pfile) == PushPairs(pfile, 1, CfgFile_default)

\* .unwrap() of the parser's result, then Ok(parse_pfile(root)).
UnwrapRoot(parsed) ==
    IF parsed.tag = "Err" THEN [tag |-> "Panic"]
    ELSE [tag |-> "Ok", cfg |-> parse_pfile(parsed.pairs)]

parse_configuration_str(data) == UnwrapRoot(SensorsConfParser_parse(data))

\* Result::unwrap_or_default() as the tests apply it.
unwrap_or_default(res) == IF res.tag = "Ok" THEN res.cfg ELSE CfgFile_default

(* The machine: a configuration text is written from statements, then parsed. *)

MaxStatements == 2

CHIP_LINE == "chip \"blah-*\"\n"

BusStatements ==
    {[rule |-> "bus",
      text |-> "bus \"i2c-0\" \"SMBus I801 adapter at 0400\"\n",
      stmt |-> [number |-> "i2c-0", adapter |-> "SMBus I801 adapter at 0400"]],
     [rule |-> "bus",
      text |-> "bus \"i2c-1\" \"SMBus PIIX4 adapter port 2 at 0b00\"\n",
      stmt |-> [number |-> "i2c-1", adapter |-> "SMBus PIIX4 adapter port 2 at 0b00"]]}

ChipStmt(labels) == [names |-> <<"blah-*">>, labels |-> labels]

ChipStatements ==
    {[rule |-> "chip", text |-> CHIP_LINE, stmt |-> ChipStmt(<<>>)],
     [rule |-> "chip", text |-> CHIP_LINE \o "    label foo bar\n",
      stmt |-> ChipStmt(<<[name |-> "foo", value |-> "bar"]>>)],
     [rule |-> "chip", text |-> CHIP_LINE \o "    label \"foo\" \"bar\"\n",
      stmt |-> ChipStmt(<<[name |-> "foo", value |-> "bar"]>>)],
     [rule |-> "chip",
      text |-> CHIP_LINE \o "    label \"_abcd\" \"1234_\"\n    label in0 \"V core\"\n",
      stmt |-> ChipStmt(<<[name |-> "_abcd", value |-> "1234_"],
                        [name |-> "in0", value |-> "V core"]>>)]}

\* The statements of the tests that the grammar does not accept.
RejectedStatements ==
    {[rule |-> "rejected", text |-> CHIP_LINE \o "    label " \o l \o "\n",
      stmt |-> ChipStmt(<<>>)] :
        l \in {"?foo \"bar\"", "foo% \"bar\"", "baz$foo \"bar\"", "! \"bar\"",
               "\"foo\"\"bar\"", "\"foo\" \"bar"}}

ConfStatements == BusStatements \cup ChipStatements \cup RejectedStatements

RECURSIVE Concat(_)
Concat(texts) == IF texts = <<>> THEN "" ELSE Head(texts) \o Concat(Tail(texts))

\* The text as the tests write it: a newline, then the statements; at_eof: the
\* text ends with the last statement, without a final newline.
Render(stmts, at_eof) ==
    IF at_eof /\ stmts # <<>>
    THEN Slice("\n" \o Concat([k \in 1..Len(stmts) |-> stmts[k].text]), 1,
               Len("\n" \o Concat([k \in 1..Len(stmts) |-> stmts[k].text])) - 1)
    ELSE "\n" \o Concat([k \in 1..Len(stmts) |-> stmts[k].text])

InitParse ==
    /\ confStmts \in UNION {[1..n -> ConfStatements] : n \in 0..MaxStatements}
    /\ confText \in {Render(confStmts, at_eof) : at_eof \in BOOLEAN}
    /\ confRet = NoResult
    /\ scaleArg = NoScaleArg
    /\ scaleRaw = ""
    /\ scaleRet = NoResult
    /\ chip = NoChip
    /\ chipName = ""
    /\ name = ""
    /\ props = NoResult
    /\ sf = NoSubfeature
    /\ file = NoFile
    /\ content0 = ""
    /\ ret = NoCall
    /\ prev = NoCall
    /\ listable = FALSE
    /\ i2c_adapters = {}
    /\ entries = <<>>
    /\ chips = <<>>
    /\ outcome = "Idle"
    /\ chipEntry = NoEntry
    /\ chipAdapters = {}
    /\ attempts = <<>>
    /\ resolved = NoResult
    /\ sysfs_i2c = NoSysfsI2C
    /\ context = NoResult
    /\ chipBus = NoResult
    /\ adapterName = NoResult
    /\ feature = NoFeature
    /\ labelDir = NoLabelDir
    /\ labelDir0 = NoLabelDir
    /\ labelRet = NoResult
    /\ sessFiles = NoSessFiles
    /\ sessCtx = <<>>
    /\ snapshot = NoResult
    /\ second = NoResult
    /\ sessOp = NoSessOp
    /\ busArgs = NoBusArgs
    /\ busRet = NoResult

\* parse_configuration_str(cfg_str)
Parse ==
    /\ confRet = NoResult
    /\ confRet' = parse_configuration_str(confText)
    /\ UNCHANGED <<confStmts, confText>>

-----------------------------------------------------------------------------
(* C1, C2: the outcome of get_properties_from_name                         *)

\* C1: for every tag and suffix of the tables and every index n, the name
\* <tag><n>_<suffix> classifies to exactly (n, the type the table gives for the
\* suffix); "beep_enable" classifies to (0, BeepEnable).
C1_RecognizedNames ==
    props # NoResult =>
        /\ \A t \in DOMAIN FEATURE_TYPE_MAP : IsPrefix(t, name) =>
                \A n \in 0..MaxIndex : IsPrefix(t \o ToDecimal(n) \o "_", name) =>
                    \A s \in DOMAIN FEATURE_TYPE_MAP[t][2] :
                        name = t \o ToDecimal(n) \o "_" \o s =>
                            props = [tag |-> "Ok", number |-> n,
                                     sf_type |-> FEATURE_TYPE_MAP[t][2][s]]
        /\ name = "beep_enable" =>
                props = [tag |-> "Ok", number |-> 0, sf_type |-> SubfeatureBeepEnable]

\* A two-digit index with a suffix holding an underscore has been classified.
C1_Witness ==
    /\ name = "temp12_crit_alarm"
    /\ props = [tag |-> "Ok", number |-> 12, sf_type |-> <<"Temperature", "Crit_Max_Alarm">>]

\* The shape <non-digits><one or more digits>_<rest>, stated on the positions of
\* the name: i non-digits, then digits up to position j, then an underscore.
ShapeSplits(s) ==
    {<<i, j>> \in (0..Len(s)) \X (1..Len(s)) :
        /\ i < j
        /\ j < Len(s)
        /\ \A k \in 1..i : ~IsDigit(CharAt(s, k))
        /\ \A k \in (i + 1)..j : IsDigit(CharAt(s, k))
        /\ CharAt(s, j + 1) = "_"}

PairInTables(tg, sfx) ==
    tg \in DOMAIN FEATURE_TYPE_MAP /\ sfx \in DOMAIN FEATURE_TYPE_MAP[tg][2]

\* C2: apart from "beep_enable", a name of the shape whose (tag, suffix) pair is
\* not in the tables fails with Unknown whatever its digits are, a name not of
\* the shape fails with Invalid, and the call never aborts.
C2_ThreeWayPartition ==
    (props # NoResult /\ name # "beep_enable") =>
        /\ props.tag # "Panic"
        /\ ShapeSplits(name) = {} => props = [tag |-> "Err", error |-> "Invalid"]
        /\ \A sp \in ShapeSplits(name) :
                ~PairInTables(Slice(name, 1, sp[1]), Slice(name, sp[2] + 2, Len(name)))
                    => props = [tag |-> "Err", error |-> "Unknown"]

-----------------------------------------------------------------------------
(* C3: read_sysfs_chips degrades by omission                               *)

\* One attempt at a chip resolves, as the specification describes it: the name
\* attribute can be read, the directory can be listed and, with a device, the
\* subsystem is known and the device name has the subsystem's form.
AttemptResolves(dir, dev, adapters) ==
    /\ dir.name_attr.present
    /\ dir.listable
    /\ dev.some =>
        /\ dev.subsystem.present
        /\ get_chip_bus_from_name(dev.subsystem.name, dev.dev_name, adapters).tag = "Ok"

EntryResolves(e, adapters) ==
    /\ e.readable
    /\ \/ AttemptResolves(e.hwmon, e.device, adapters)
       \/ e.device.some /\ AttemptResolves(e.device.dir, e.device, adapters)

\* C3: read_sysfs_chips fails only when /sys/class/hwmon cannot be listed; whatever
\* the entries hold, a listable directory gives Ok, with one chip for every entry
\* that resolves, in the order of the entries, and nothing for the others.
C3_EnumerationDegradesByOmission ==
    /\ outcome \in {"Err", "Panic"} => ~listable
    /\ outcome = "Ok" =>
        /\ Len(chips) = Cardinality({i \in 1..Len(entries) :
                                        EntryResolves(entries[i], i2c_adapters)})
        /\ \A i \in 1..Len(chips) : \E j \in i..Len(entries) :
                /\ EntryResolves(entries[j], i2c_adapters)
                /\ chips[i].path \in {HWMON_PATH \o "/" \o entries[j].name,
                                      HWMON_PATH \o "/" \o entries[j].name \o "/device"}

-----------------------------------------------------------------------------
(* C4 .. C8: read_value and write_value                                    *)

ErrAccess == [tag |-> "Err", error |-> "Access"]

\* C4: on a subfeature that was not writable at discovery, write_value fails
\* with the access error without touching the file, and after any sequence of
\* read_value and write_value calls the file holds what it held before.
C4_NotWritableNoWrite ==
    ~sf.is_writable =>
        /\ file.content = content0
        /\ ret.op = "write_value" => (ret.res = ErrAccess /\ ~ret.opened)

\* A write_value call after a read_value call, on an existing file that is not writable.
C4_Witness ==
    /\ ~sf.is_writable
    /\ file.present
    /\ prev.op = "read_value"
    /\ ret.op = "write_value"
    /\ ret.arg = MaxWrite * UNIT

\* C5: a read_value that directly follows a successful write_value(x) returns a
\* value within one raw unit (1/scale) of x, for negative, zero and positive x.
C5_WriteThenRead ==
    (prev.op = "write_value" /\ prev.res.tag = "Ok" /\ ret.op = "read_value"
        /\ sf.is_readable) =>
        /\ ret.res.tag = "Ok"
        /\ Abs(ret.res.value - prev.arg) <= UNIT \div scale(sf.subfeature_type)

\* The integer a text denotes, for the texts [-]digits.
IsIntegerText(t) ==
    LET body == IF Len(t) > 0 /\ CharAt(t, 1) = "-" THEN Slice(t, 2, Len(t)) ELSE t
    IN  Len(body) > 0 /\ AllDigits(body)

IntegerOf(t) ==
    IF CharAt(t, 1) = "-" THEN -DecimalValue(Slice(t, 2, Len(t))) ELSE DecimalValue(t)

\* C6: when read_value has returned the value of the raw integer r held by the
\* file and write_value is then called with that value, the file holds an integer
\* within 1 of r.
C6_RawRoundTrip ==
    (prev.op = "read_value" /\ prev.res.tag = "Ok"
        /\ prev.res.value % (UNIT \div scale(sf.subfeature_type)) = 0
        /\ ret.op = "write_value" /\ ret.res.tag = "Ok" /\ ret.arg = prev.res.value) =>
        LET r == prev.res.value \div (UNIT \div scale(sf.subfeature_type))
        IN  /\ IsIntegerText(TrimRight(file.content))
            /\ Abs(IntegerOf(TrimRight(file.content)) - r) <= 1

\* The decimal text of a signed integer.
SignedDecimal(r) == IF r < 0 THEN "-" \o ToDecimal(-r) ELSE ToDecimal(r)

\* C7: after a successful write_value(v) the whole content of the file is the
\* decimal text of round(v * scale), whatever the file held before.
C7_WriteReplacesContent ==
    (ret.op = "write_value" /\ ret.res.tag = "Ok") =>
        file.content =
            SignedDecimal(RoundHalfAway(ret.arg, UNIT \div scale(sf.subfeature_type)))

-----------------------------------------------------------------------------
(* C9, C10: the format of Chip::name                                       *)

LowerHexDigits == Digits \cup {"a", "b", "c", "d", "e", "f"}

HexDigitVal(c) ==
    CASE c \in Digits -> DigitVal(c)
      [] c = "a" -> 10 [] c = "b" -> 11 [] c = "c" -> 12
      [] c = "d" -> 13 [] c = "e" -> 14 [] c = "f" -> 15

RECURSIVE HexValue(_)
HexValue(s) ==
    IF Len(s) = 0 THEN 0
    ELSE HexValue(Slice(s, 1, Len(s) - 1)) * 16 + HexDigitVal(CharAt(s, Len(s)))

\* f is the lower-case hexadecimal text of addr, zero padded to exactly the
\* width when shorter and not padded beyond it.
IsHexField(f, addr, width) ==
    /\ Len(f) >= width
    /\ Len(f) >= 1
    /\ \A i \in 1..Len(f) : CharAt(f, i) \in LowerHexDigits
    /\ HexValue(f) = addr
    /\ (Len(f) > width /\ Len(f) > 1) => CharAt(f, 1) # "0"

\* t is the decimal text of the bus number n, without sign or leading zeros.
IsDecimalField(t, n) ==
    /\ Len(t) >= 1
    /\ AllDigits(t)
    /\ Len(t) > 1 => CharAt(t, 1) # "0"
    /\ DecimalValue(t) = n

\* Position of the first "-" of s from position i on, or 0.
RECURSIVE DashPos(_, _)
DashPos(s, i) ==
    IF i > Len(s) THEN 0 ELSE IF CharAt(s, i) = "-" THEN i ELSE DashPos(s, i + 1)

\* Position of the last "-" of s, or 0.
RECURSIVE LastDashPos(_)
LastDashPos(s) ==
    IF Len(s) = 0 THEN 0
    ELSE IF CharAt(s, Len(s)) = "-" THEN Len(s)
    ELSE LastDashPos(Slice(s, 1, Len(s) - 1))

\* The name is <prefix>-<word>-<hex field> or <prefix>-<word>-<busnum>-<hex field>.
HasNameFormat(n, c, word, numbered, width) ==
    LET head == c.prefix \o "-" \o word \o "-"
        rest == Slice(n, Len(head) + 1, Len(n))
        dash == DashPos(rest, 1)
    IN  /\ IsPrefix(head, n)
        /\ IF numbered
           THEN /\ dash > 1
                /\ IsDecimalField(Slice(rest, 1, dash - 1), c.bus_number)
                /\ IsHexField(Slice(rest, dash + 1, Len(rest)), c.address, width)
           ELSE IsHexField(rest, c.address, width)

\* C9: the name follows the table: isa and pci with the address as 04x, i2c with
\* the bus number and the address as 02x, spi, hid and scsi with the bus number
\* and the address as x, acpi, mdio and virtual with the address as x.
C9_NameFormatTable ==
    chipName # "" =>
        CASE chip.bus_type = "ISA"     -> HasNameFormat(chipName, chip, "isa", FALSE, 4)
          [] chip.bus_type = "PCI"     -> HasNameFormat(chipName, chip, "pci", FALSE, 4)
          [] chip.bus_type = "I2C"     -> HasNameFormat(chipName, chip, "i2c", TRUE, 2)
          [] chip.bus_type = "SPI"     -> HasNameFormat(chipName, chip, "spi", TRUE, 1)
          [] chip.bus_type = "HID"     -> HasNameFormat(chipName, chip, "hid", TRUE, 1)
          [] chip.bus_type = "ACPI"    -> HasNameFormat(chipName, chip, "acpi", FALSE, 1)
          [] chip.bus_type = "MDIO"    -> HasNameFormat(chipName, chip, "mdio", FALSE, 1)
          [] chip.bus_type = "SCSI"    -> HasNameFormat(chipName, chip, "scsi", TRUE, 1)
          [] chip.bus_type = "Virtual" -> HasNameFormat(chipName, chip, "virtual", FALSE, 1)

\* The text after the last "-" of the name.
AddressField(n) == Slice(n, LastDashPos(n) + 1, Len(n))

\* C10: lm75 on I2C bus 2 at 0x48 is named lm75-i2C-2-48 and coretemp on ISA at
\* 0x2a is named coretemp-isa-002a; a PCI or ISA address has at least 4 hex
\* digits, an I2C address at least 2.
C10_NameExamples ==
    chipName # "" =>
        /\ chip = [prefix |-> "lm75", bus_type |-> "I2C", bus_number |-> 2, address |-> 72]
                => chipName = "lm75-i2C-2-48"
        /\ chip = [prefix |-> "coretemp", bus_type |-> "ISA", bus_number |-> 0, address |-> 42]
                => chipName = "coretemp-isa-002a"
        /\ chip.bus_type \in {"PCI", "ISA"} => IsHexField(AddressField(chipName), chip.address, 4)
        /\ chip.bus_type = "I2C" => IsHexField(AddressField(chipName), chip.address, 2)

\* Both chips of the examples get named.
C10_Witness ==
    /\ chip = [prefix |-> "coretemp", bus_type |-> "ISA", bus_number |-> 0, address |-> 42]
    /\ chipName = "coretemp-isa-002a"

-----------------------------------------------------------------------------
(* C11 .. C15: the bus and the address get_chip_bus_from_name gives        *)

\* Bitwise or of two naturals.
RECURSIVE BitOr(_, _)
BitOr(a, b) ==
    IF a = 0 THEN b
    ELSE IF b = 0 THEN a
    ELSE (IF a % 2 = 1 \/ b % 2 = 1 THEN 1 ELSE 0) + 2 * BitOr(a \div 2, b \div 2)

\* A hex number that fits u32, a decimal number that fits i16.
IsHexNumber(s) ==
    /\ Len(s) > 0
    /\ \A i \in 1..Len(s) : CharAt(s, i) \in HexDigits
    /\ Len(StripZeros(s)) <= 8

IsDecNumber(s) == Len(s) > 0 /\ AllDigits(s) /\ ~ExceedsDecimal(s, I16_MAX_TEXT)

BusCalled == busRet # NoResult

\* <domain>:<bus>:<slot>.<function>, all hex.
PciFields(n) ==
    LET c == Split(n, ":")
        d == IF Len(c) = 3 THEN Split(c[3], ".") ELSE <<>>
    IN  IF Len(c) = 3 /\ Len(d) = 2 THEN <<c[1], c[2], d[1], d[2]>> ELSE <<>>

IsPciName(n) == PciFields(n) # <<>> /\ \A i \in 1..4 : IsHexNumber(PciFields(n)[i])

\* C11: for subsystem pci and a device name <domain>:<bus>:<slot>.<function> of four
\* hex fields the result is PCI, bus number 0, and the address is
\* (domain<<16) | (bus<<8) | (slot<<3) | function, whatever the field values.
C11_PciAddress ==
    (BusCalled /\ busArgs.subsytem = "pci" /\ IsPciName(busArgs.device_name)) =>
        LET f == PciFields(busArgs.device_name)
        IN  busRet = BusOk("PCI", 0,
                           BitOr(BitOr(HexNumber(f[1]) * 65536, HexNumber(f[2]) * 256),
                                 BitOr(HexNumber(f[3]) * 8, HexNumber(f[4]))))

IsExamplePci == busArgs.subsytem = "pci" /\ busArgs.device_name = "0000:00:1f.3"

\* C12, as stated: the PCI device name 0000:00:1f.3 resolves to PCI with address 0xf83.
C12_PciExample_0xf83 == (BusCalled /\ IsExamplePci) => busRet = BusOk("PCI", 0, 3971)

\* C12, amended: the PCI device name 0000:00:1f.3 resolves to PCI with address
\* (0x1f << 3) + 3 = 0xfb.
C12_PciExample == (BusCalled /\ IsExamplePci) => busRet = BusOk("PCI", 0, 251)

C12_Witness == BusCalled /\ IsExamplePci /\ busRet.tag = "Ok"

\* <host>:<bus>:<slot>:<lun>, decimal but for the hex lun.
IsScsiName(n) ==
    LET c == Split(n, ":")
    IN  /\ Len(c) = 4
        /\ IsDecNumber(c[1]) /\ IsDecNumber(c[2]) /\ IsDecNumber(c[3])
        /\ IsHexNumber(c[4])

\* C13: for subsystem scsi and a device name <host>:<bus>:<slot>:<lun> the result is
\* SCSI, bus number host, and the address is (bus<<8) | (slot<<4) | lun, whatever
\* the field values.
C13_ScsiAddress ==
    (BusCalled /\ busArgs.subsytem = "scsi" /\ IsScsiName(busArgs.device_name)) =>
        LET c == Split(busArgs.device_name, ":")
        IN  busRet = BusOk("SCSI", DecimalValue(c[1]),
                           BitOr(DecimalValue(c[2]) * 256,
                                 BitOr(DecimalValue(c[3]) * 16, HexNumber(c[4]))))

\* <n>-<hex>
IsI2CName(n) ==
    LET c == Split(n, "-")
    IN  Len(c) = 2 /\ IsDecNumber(c[1]) /\ IsHexNumber(c[2])

I2CNumber(n) == DecimalValue(Split(n, "-")[1])
I2CAddress(n) == HexNumber(Split(n, "-")[2])

\* C14: for subsystem i2c a device name 9191-<hex> gives ISA, bus number 0 and the
\* hex field as address, whatever adapter name files exist.
C14_LegacyIsa ==
    (/\ BusCalled
     /\ busArgs.subsytem = "i2c"
     /\ IsI2CName(busArgs.device_name)
     /\ Split(busArgs.device_name, "-")[1] = "9191") =>
        busRet = BusOk("ISA", 0, I2CAddress(busArgs.device_name))

C14_Witness ==
    /\ BusCalled
    /\ busArgs = [subsytem |-> "i2c", device_name |-> "9191-0048",
                  adapters |-> {[number |-> 9191, content |-> "SMBus I801 adapter\n"]}]
    /\ busRet = BusOk("ISA", 0, 72)

\* C15: for subsystem i2c and a device name <n>-<hex> with n other than 9191 the
\* result is ISA with bus number 0 when the name file of adapter n holds ISA, with
\* or without the newline sysfs appends, and I2C with bus number n when the file is
\* absent or holds another text; the address is the hex field in both cases.
C15_AdapterNamedIsa ==
    (/\ BusCalled
     /\ busArgs.subsytem = "i2c"
     /\ IsI2CName(busArgs.device_name)
     /\ I2CNumber(busArgs.device_name) # 9191) =>
        LET n == I2CNumber(busArgs.device_name)
            isa == \E a \in busArgs.adapters :
                        a.number = n /\ a.content \in {"ISA", "ISA\n"}
        IN  busRet = IF isa THEN BusOk("ISA", 0, I2CAddress(busArgs.device_name))
                     ELSE BusOk("I2C", n, I2CAddress(busArgs.device_name))

-----------------------------------------------------------------------------
(* C16 .. C19: one hwmon entry, its bus, its attempts and its features     *)

ChipDone == resolved # NoResult

\* The subsystems whose devices carry no address, and their bus types.
AddressLess ==
    [s \in {"platform", "of_platform", "acpi", "hid", "mdio_bus"} |->
        CASE s \in {"platform", "of_platform"} -> "ISA"
          [] s = "acpi" -> "ACPI"
          [] s = "hid" -> "HID"
          [] s = "mdio_bus" -> "MDIO"]

ParsedSubsystems == {"i2c", "spi", "pci", "scsi"}

BusErrors == {"UnknownDevice", "ParseBusInfo", "ParseInt"}

BusOf(c) == <<c.bus_type, c.bus_number, c.address>>

\* The directory the i-th attempt reads the attributes from.
AttemptDir(i) == IF i = 1 THEN chipEntry.hwmon ELSE chipEntry.device.dir

\* C16: an entry without a device link is Virtual, bus number 0, address 0; the
\* subsystems platform and of_platform give ISA, acpi ACPI, hid HID, mdio_bus MDIO,
\* each with bus number 0 and address 0 whatever the device name, and none of them
\* fails on the bus; a subsystem other than these and i2c, spi, pci, scsi gives the
\* UnknownDevice error at every attempt and no chip for the entry.
C16_AddressLessDevices ==
    ChipDone =>
        LET d == chipEntry.device
            known == d.some /\ d.subsystem.present /\ d.subsystem.name \in DOMAIN AddressLess
            unknown == /\ d.some /\ d.subsystem.present
                       /\ d.subsystem.name \notin DOMAIN AddressLess \cup ParsedSubsystems
        IN  /\ (~d.some /\ resolved.tag = "Ok") => BusOf(resolved.chip) = <<"Virtual", 0, 0>>
            /\ (known /\ resolved.tag = "Ok") =>
                    BusOf(resolved.chip) = <<AddressLess[d.subsystem.name], 0, 0>>
            /\ (~d.some \/ known) =>
                    \A i \in 1..Len(attempts) :
                        attempts[i].result.tag = "Err" =>
                            attempts[i].result.error \notin BusErrors
            /\ unknown =>
                    /\ resolved.tag = "Err"
                    /\ \A i \in 1..Len(attempts) :
                            /\ attempts[i].result.tag = "Err"
                            /\ AttemptDir(i).name_attr.present =>
                                    attempts[i].result.error = "UnknownDevice"

C16_Witness ==
    /\ ChipDone
    /\ chipEntry.device.some
    /\ chipEntry.device.subsystem.name = "mdio_bus"
    /\ chipEntry.device.dev_name = "2-0048"
    /\ resolved.tag = "Ok"
    /\ BusOf(resolved.chip) = <<"MDIO", 0, 0>>

\* C17: with a device link the chip is first resolved with the hwmon entry as
\* attribute directory; only after an error is exactly one second attempt made, with
\* the device path as attribute directory; the entry gives the chip of the first
\* attempt that succeeds, whose path is the directory of that attempt, and nothing,
\* as an error that is dropped, when both fail.  Without a device link there is a
\* single attempt.
C17_FallbackOrder ==
    LET d == chipEntry.device
        n == Len(attempts)
    IN  /\ n >= 1 => attempts[1].path = EntryPath
        /\ n <= (IF d.some THEN 2 ELSE 1)
        /\ n = 2 => /\ attempts[1].result.tag = "Err"
                    /\ attempts[2].path = EntryPath \o "/device"
        /\ \A i \in 1..n :
                attempts[i].result.tag # "Panic" =>
                    (attempts[i].result.tag = "Ok"
                        <=> AttemptResolves(AttemptDir(i), d, chipAdapters))
        /\ ChipDone =>
                /\ (d.some /\ attempts[1].result.tag = "Err") => n = 2
                /\ resolved = attempts[n].result
                /\ resolved.tag = "Ok" => resolved.chip.path = attempts[n].path
                /\ (\A i \in 1..n : attempts[i].result.tag = "Err") => resolved.tag = "Err"

C17_Witness ==
    /\ ChipDone
    /\ Len(attempts) = 2
    /\ resolved.tag = "Ok"
    /\ resolved.chip.path = EntryPath \o "/device"

\* A regular file whose name the classifier accepts, and the feature it belongs to.
Classifies(f) == f.kind = "file" /\ get_properties_from_name(f.name).tag = "Ok"

KeyOf(f) ==
    <<FeatureTypeOf(get_properties_from_name(f.name).sf_type),
      get_properties_from_name(f.name).number>>

\* The directory of the attempt that gave the chip.
ChipDir == AttemptDir(Len(attempts))

ExampleListing ==
    {RegularFile(n) : n \in {"temp1_input", "temp1_max", "temp1_max_hyst", "unrelated_file"}}

\* C18: the features of a chip are exactly the distinct (FeatureType, index) pairs
\* of the regular files that classify, each feature holds exactly one subfeature per
\* such file of its pair, and the files that fail classification add nothing and
\* cause no error; temp1_input, temp1_max, temp1_max_hyst and unrelated_file give
\* exactly one feature (Temperature, 1) with exactly 3 subfeatures.
C18_DiscoveryResult ==
    ChipDone =>
        /\ resolved.tag = "Ok" =>
            LET good == {f \in ChipDir.files : Classifies(f)}
                feats == resolved.chip.features
            IN  /\ {<<ft.feature_type, ft.number>> : ft \in feats} = {KeyOf(f) : f \in good}
                /\ Cardinality(feats) = Cardinality({KeyOf(f) : f \in good})
                /\ \A ft \in feats :
                        LET mine == {f \in good : KeyOf(f) = <<ft.feature_type, ft.number>>}
                        IN  /\ {x.name : x \in ft.subfeatures} = {f.name : f \in mine}
                            /\ Cardinality(ft.subfeatures) = Cardinality(mine)
                /\ ChipDir.files = ExampleListing =>
                        /\ Cardinality(feats) = 1
                        /\ \A ft \in feats :
                                /\ <<ft.feature_type, ft.number>> = <<"Temperature", 1>>
                                /\ Cardinality(ft.subfeatures) = 3
        /\ (/\ ~chipEntry.device.some
            /\ chipEntry.hwmon.name_attr.present
            /\ \A f \in chipEntry.hwmon.files :
                    f.kind = "file" => get_properties_from_name(f.name).tag \in {"Ok", "Err"})
                => resolved.tag = "Ok"

C18_Witness ==
    /\ ChipDone
    /\ resolved.tag = "Ok"
    /\ chipEntry.hwmon.files = ExampleListing
    /\ \E ft \in resolved.chip.features : Cardinality(ft.subfeatures) = 3

\* C19: within every feature of a chip no two subfeatures have the same
\* SubfeatureType, whatever the attribute file names in the chip directory, indexes
\* written with leading zeros included.
C19_UniqueSubfeatureTypes ==
    (ChipDone /\ resolved.tag = "Ok") =>
        \A ft \in resolved.chip.features :
            \A a, b \in ft.subfeatures : a.subfeature_type = b.subfeature_type => a = b

-----------------------------------------------------------------------------
(* C20: the static tables are injective and cover the taxonomy             *)

TablePairs ==
    {<<t, x>> \in (DOMAIN FEATURE_TYPE_MAP) \X TableSuffixes :
        x \in DOMAIN FEATURE_TYPE_MAP[t][2]}

TableImage == {FEATURE_TYPE_MAP[p[1]][2][p[2]] : p \in TablePairs}

\* C20: two different (tag, suffix) pairs never map to the same SubfeatureType;
\* every variant of the Fan, Temperature, Voltage, Current, Power, Energy, Humidity
\* and Intrusion enums and the Cpu kind is the image of exactly one pair; a name whose
\* (tag, suffix) pair is absent from the tables is rejected, and an accepted name gets
\* the type its pair has in the tables (names of one line, digit run within u32: the
\* lookup is reached with the whole suffix).
C20_TablesInjectiveAndCovering ==
    /\ Cardinality(TableImage) = Cardinality(TablePairs)
    /\ TableImage = TableSubfeatureTypes
    /\ (/\ props # NoResult
        /\ name # "beep_enable"
        /\ props.tag # "Panic"
        /\ FindChar(name, "\n", 1) = 0) =>
        LET pairs == {<<Slice(name, 1, sp[1]), Slice(name, sp[2] + 2, Len(name))>> :
                        sp \in ShapeSplits(name)}
        IN  IF \E p \in pairs : PairInTables(p[1], p[2])
            THEN /\ props.tag = "Ok"
                 /\ \E p \in pairs : /\ PairInTables(p[1], p[2])
                                      /\ props.sf_type = FEATURE_TYPE_MAP[p[1]][2][p[2]]
            ELSE props.tag = "Err"

C20_Witness ==
    /\ name = "power3_average_interval"
    /\ props.tag = "Ok"
    /\ props.sf_type = <<"Power", "Average_Interval">>

-----------------------------------------------------------------------------
(* C21: Bus::adapter_name                                                  *)

\* The names of the bus types that have one instance.
FixedAdapterName ==
    [ISA |-> "ISA adapter", PCI |-> "PCI adapter", SPI |-> "SPI adapter",
     Virtual |-> "Virtual device", ACPI |-> "ACPI interface", HID |-> "HID adapter",
     MDIO |-> "MDIO adapter", SCSI |-> "SCSI adapter"]

\* The positions in the Context of the I2C adapters with the number of the chip's bus.
MatchingAdapters ==
    {i \in DOMAIN context.adapters :
        /\ context.adapters[i].bus_type = "I2C"
        /\ context.adapters[i].bus_number = chipBus.bus_number}

SetMin(S) == CHOOSE x \in S : \A y \in S : x <= y

\* C21: adapter_name always returns an Option: for a bus type other than I2C the
\* fixed name of the type, for I2C the name of the first adapter of the Context of
\* type I2C with the bus's number, None when the Context has none; and the Bus of an
\* I2C chip is made whether or not the Context holds its adapter.
C21_AdapterName ==
    /\ adapterName # NoResult =>
        /\ adapterName \in [some : BOOLEAN, text : STRING]
        /\ chipBus.bus_type # "I2C" =>
                adapterName = [some |-> TRUE, text |-> FixedAdapterName[chipBus.bus_type]]
        /\ (chipBus.bus_type = "I2C" /\ MatchingAdapters = {}) =>
                adapterName = [some |-> FALSE, text |-> ""]
        /\ (chipBus.bus_type = "I2C" /\ MatchingAdapters # {}) =>
                adapterName = [some |-> TRUE,
                               text |-> context.adapters[SetMin(MatchingAdapters)].name]
    /\ (context # NoResult /\ context.tag = "Ok") =>
        \A d \in CtxDevices : d.subsystem = "i2c" =>
            get_chip_bus_from_name(d.subsystem, d.dev_name,
                                   DeviceNameFiles(sysfs_i2c)).tag = "Ok"

\* An I2C chip whose adapter is not in a Context that holds another one: None.
C21_Witness ==
    /\ adapterName = [some |-> FALSE, text |-> ""]
    /\ chipBus.bus_type = "I2C"
    /\ Len(context.adapters) > 0

\* Two adapters of the chip's number in the Context: the first one names the bus.
C21_WitnessFirst ==
    /\ adapterName # NoResult
    /\ Cardinality(MatchingAdapters) = 2
    /\ chipBus.bus_type = "I2C"
    /\ context.adapters[1].name # context.adapters[2].name

-----------------------------------------------------------------------------
(* C22: Feature::label                                                     *)

\* The files of the chip directory named <feature name>_label at the call.
OwnLabelFiles == {f \in labelDir : f.name = feature.name \o "_label"}

C22_WitnessRemoved ==
    /\ labelRet # NoResult
    /\ labelRet.text = "cpu0_vid"
    /\ \E f \in labelDir0 : f.name = "cpu0_vid_label"
    /\ labelDir = {}

-----------------------------------------------------------------------------
(* C23: the scan of Context::new                                           *)

\* The directory the scan is about.
ScannedDir == IF sysfs_i2c.class.is_dir THEN sysfs_i2c.class ELSE sysfs_i2c.devices

\* The text after "i2c-" in an entry name.
AdapterDigits(e) == Slice(e.file_name, 5, Len(e.file_name))

\* An entry named i2c-<n>, n a number of the bus number type.
IsAdapterEntry(e) ==
    /\ e.readable
    /\ IsPrefix("i2c-", e.file_name)
    /\ IsDecNumber(AdapterDigits(e))
    /\ ~ExceedsDecimal(AdapterDigits(e), "32767")

AdapterNumber(e) == DecimalValue(AdapterDigits(e))

\* The adapter the scan owes to an entry i2c-<n>, n # 9191.
AdapterFor(e) ==
    [name |-> TrimRight(IF e.name.present THEN e.name.content ELSE e.device_name.content),
     bus_type |-> "I2C", bus_number |-> AdapterNumber(e)]

IsNamedAdapter(e) == AdapterNumber(e) # 9191

NamedEntries == SelectSeq(ScannedDir.entries, IsNamedAdapter)

\* C23: Context::new scans class/i2c-adapter when it is a directory and
\* bus/i2c/devices otherwise; it succeeds exactly when the directory can be listed and
\* every entry is named i2c-<n> and, unless n = 9191, has a readable name or
\* device/name attribute; the adapters are then one per entry with n # 9191, in the
\* order of the listing, of type I2C, number n and the name attribute's text, the
\* device/name text only when name cannot be read; in every other case it fails.
C23_ContextScan ==
    context # NoResult =>
        IF /\ ScannedDir.listable
           /\ \A i \in DOMAIN ScannedDir.entries :
                /\ IsAdapterEntry(ScannedDir.entries[i])
                /\ \/ AdapterNumber(ScannedDir.entries[i]) = 9191
                   \/ ScannedDir.entries[i].name.present
                   \/ ScannedDir.entries[i].device_name.present
        THEN /\ context.tag = "Ok"
             /\ context.adapters = [i \in DOMAIN NamedEntries |-> AdapterFor(NamedEntries[i])]
        ELSE context.tag = "Err"

\* A scan of class/i2c-adapter that met i2c-9191 and an entry with both attributes.
C23_Witness ==
    /\ context # NoResult
    /\ context.tag = "Ok"
    /\ sysfs_i2c.class.is_dir
    /\ Len(ScannedDir.entries) = 2
    /\ Len(context.adapters) = 1
    /\ \E i \in DOMAIN ScannedDir.entries :
        /\ ScannedDir.entries[i].name.present
        /\ ScannedDir.entries[i].device_name.present
        /\ ScannedDir.entries[i].file_name # "i2c-9191"

\* A scan that failed after an entry it could use.
C23_WitnessFails ==
    /\ context # NoResult
    /\ context.tag = "Err"
    /\ ScannedDir.listable
    /\ Len(ScannedDir.entries) = 2
    /\ IsAdapterEntry(ScannedDir.entries[1])
    /\ ScannedDir.entries[1].name.present

-----------------------------------------------------------------------------
(* C24: a returned collection is a snapshot                                *)

SessPath(n) == HWMON_PATH \o "/" \o SESS_ENTRY \o "/" \o n

\* C24: once read_sysfs_chips has returned a collection, no step (a later
\* read_sysfs_chips, read_value, write_value, label, a change of sysfs or of its
\* permissions) changes the collection or the adapters of the Context; a later
\* collection is changed by nothing but the call that replaces it; write_value leaves
\* every file but the one at the subfeature's path as it was, and of that one it
\* changes the content only; the other calls of the library change no file.
C24_Snapshot ==
    [][/\ snapshot # NoResult => snapshot' = snapshot
       /\ sessCtx' = sessCtx
       /\ (second # NoResult /\ sessOp'.op # "read_sysfs_chips") => second' = second
       /\ (sessOp'.n # sessOp.n /\ sessOp'.op = "write_value") =>
            \A n \in SessNames :
                /\ sessFiles'[n].present = sessFiles[n].present
                /\ sessFiles'[n].st_mode = sessFiles[n].st_mode
                /\ sessOp'.path # SessPath(n) => sessFiles'[n] = sessFiles[n]
       /\ (sessOp'.n # sessOp.n /\ sessOp'.op \in {"read_value", "label", "read_sysfs_chips"})
            => sessFiles' = sessFiles
       /\ (snapshot = NoResult /\ snapshot' # NoResult) => sessFiles' = sessFiles
      ]_vars

\* sysfs changed after the first collection was returned, a second call returned a
\* different collection, and a write through the first collection succeeded.
C24_Witness ==
    /\ snapshot # NoResult
    /\ second # NoResult
    /\ second # snapshot
    /\ sessOp.op = "write_value"
    /\ sessOp.res.tag = "Ok"
    /\ Cardinality({n \in SessNames : sessFiles[n].present}) >= 2

-----------------------------------------------------------------------------
(* C25: the types of keys, features and subfeatures agree                  *)

\* C25: the FeatureType the tag table pairs with a tag is the FeatureType of every
\* SubfeatureType of the tag's suffix table; in a chip no two features have the same
\* (type, number), and every subfeature of a feature has the feature's type and was
\* classified with the feature's number; and an attempt aborts only on a file whose
\* classification aborts, never on push_subfeature.
C25_TypeConsistency ==
    /\ \A t \in DOMAIN FEATURE_TYPE_MAP :
            \A s \in DOMAIN FEATURE_TYPE_MAP[t][2] :
                FeatureTypeOf(FEATURE_TYPE_MAP[t][2][s]) = FEATURE_TYPE_MAP[t][1]
    /\ ChipDone =>
        /\ resolved.tag = "Ok" =>
            \A ft \in resolved.chip.features :
                /\ \A other \in resolved.chip.features :
                        (other.feature_type = ft.feature_type /\ other.number = ft.number)
                            => other = ft
                /\ \A x \in ft.subfeatures :
                        /\ FeatureTypeOf(x.subfeature_type) = ft.feature_type
                        /\ push_subfeature_ok(ft.feature_type, x)
                        /\ get_properties_from_name(x.name).number = ft.number
        /\ \A i \in 1..Len(attempts) :
                attempts[i].result.tag = "Panic" =>
                    \E f \in AttemptDir(i).files :
                        f.kind = "file" /\ get_properties_from_name(f.name).tag = "Panic"

\* A chip with features of two types, one of them with two subfeatures.
C25_Witness ==
    /\ ChipDone
    /\ resolved.tag = "Ok"
    /\ \E a, b \in resolved.chip.features :
        /\ a.feature_type = "Temperature"
        /\ Cardinality(a.subfeatures) >= 2
        /\ b.feature_type = "Fan"

-----------------------------------------------------------------------------
(* C26: only regular files are attributes                                  *)

\* The entry at hand with nothing but the regular files in its directories.
RegularOnly(e) ==
    [e EXCEPT !.hwmon.files = {f \in e.hwmon.files : f.kind = "file"},
              !.device.dir.files = {f \in e.device.dir.files : f.kind = "file"}]

\* C26: every subfeature of a chip is a regular file of the chip directory: a
\* directory, a symlink or an entry of unknown type with an attribute name gives no
\* subfeature and no feature, and the entry resolves exactly as it does without
\* the entries that are no regular files.
C26_RegularFilesOnly ==
    ChipDone =>
        /\ resolved.tag = "Ok" =>
            \A ft \in resolved.chip.features :
                /\ ft.subfeatures # {}
                /\ \A x \in ft.subfeatures :
                        \E f \in ChipDir.files : f.kind = "file" /\ f.name = x.name
        /\ resolved = EntryChip(RegularOnly(chipEntry), chipAdapters)

\* A directory temp1_input, a symlink temp1_max and one regular attribute file: one
\* feature with one subfeature.
C26_Witness ==
    /\ ChipDone
    /\ resolved.tag = "Ok"
    /\ \E f \in chipEntry.hwmon.files : f.kind = "dir" /\ f.name = "temp1_input"
    /\ \E f \in chipEntry.hwmon.files : f.kind = "symlink" /\ f.name = "temp1_max"
    /\ \E f \in chipEntry.hwmon.files : f.kind = "unknown"
    /\ Cardinality(resolved.chip.features) = 1
    /\ \A ft \in resolved.chip.features :
        ft.feature_type = "Temperature" /\ ft.number = 2 /\ Cardinality(ft.subfeatures) = 1

-----------------------------------------------------------------------------
(* C27: attribute file names and feature names                             *)

\* The tag of a feature type in the tag table.
TagOf(feature_type) ==
    CHOOSE t \in DOMAIN FEATURE_TYPE_MAP : FEATURE_TYPE_MAP[t][1] = feature_type

\* The file name that the feature's name and the table suffix of the type give.
RoundTripName(ft, x) ==
    CASE ft.feature_type = "Cpu" -> ft.name
      [] ft.feature_type = "BeepEnable" -> "beep_enable"
      [] OTHER ->
            LET m == FEATURE_TYPE_MAP[TagOf(ft.feature_type)][2]
            IN  ft.name \o "_" \o (CHOOSE s \in DOMAIN m : m[s] = x.subfeature_type)

\* C27: when label is called on a feature, every subfeature of the feature has
\* the file name <feature name>_<table suffix of its type> (the feature name itself
\* for Cpu, beep_enable for BeepEnable), however the index is written in the file
\* name, so that the label file <feature name>_label and the attribute files start
\* with the same <tag><digits>.
C27_NameRoundTrip ==
    labelRet # NoResult =>
        \A x \in feature.subfeatures : x.name = RoundTripName(feature, x)

-----------------------------------------------------------------------------
(* C28: the scales                                                         *)

EndsWith(s, e) == Len(s) >= Len(e) /\ Slice(s, Len(s) - Len(e) + 1, Len(s)) = e

\* An alarm, fault or beep attribute.
IsFlagSuffix(sfx) == sfx = "alarm" \/ EndsWith(sfx, "_alarm") \/ sfx \in {"fault", "beep"}

\* The scale the attribute of a tag and a suffix is to have.
ExpectedScale(a) ==
    IF \/ IsFlagSuffix(a.suffix)
       \/ a.tag \in {"intrusion", "fan"}
       \/ a.suffix = "beep_enable" /\ a.tag = ""
       \/ a.tag = "temp" /\ a.suffix = "type"
    THEN 1
    ELSE IF a.tag \in {"temp", "in", "curr", "humidity", "cpu"} THEN 1000
    ELSE IF a.suffix = "average_interval" THEN 1000
    ELSE IF a.suffix = "accuracy" THEN 1
    ELSE 1000000

\* C28: the attribute <tag>1_<suffix> of every pair of the tables, and beep_enable,
\* classifies to a type whose scale is 1 for alarm, *_alarm, fault and beep, for every
\* intrusion and fan attribute, for beep_enable and temp type, 1000 for the other
\* temp, in, curr, humidity and cpu attributes, 1000000 for the other power and
\* energy attributes except power average_interval (1000) and accuracy (1); no scale
\* is 0, and with scale 1 read_value returns the raw 0 or 1 as 0.0 or 1.0.
C28_ScaleTable ==
    scaleRet # NoResult =>
        /\ scaleRet.scale = ExpectedScale(scaleArg)
        /\ scaleRet.scale # 0
        /\ scaleRet.value.tag = "Ok"
        /\ scaleRet.value.value * scaleRet.scale = DecimalValue(TrimRight(scaleRaw)) * UNIT

\* The raw flag 1 of a temperature fault attribute read as 1.0.
C28_Witness ==
    /\ scaleRet # NoResult
    /\ scaleArg = [tag |-> "temp", suffix |-> "fault"]
    /\ scaleRaw = "1\n"
    /\ scaleRet.scale = 1
    /\ scaleRet.value = [tag |-> "Ok", value |-> UNIT]

\* power1_average_interval read with scale 1000.
C28_WitnessInterval ==
    /\ scaleRet # NoResult
    /\ scaleArg = [tag |-> "power", suffix |-> "average_interval"]
    /\ scaleRet.scale = 1000

-----------------------------------------------------------------------------
(* C29: no Pwm feature                                                     *)

ChipFeatureTypes ==
    {"Fan", "Temperature", "Voltage", "Current", "Power", "Energy", "Humidity", "Cpu",
     "Intrusion", "BeepEnable"}

\* C29: the tag table has exactly the tags temp, in, fan, cpu, power, curr, energy,
\* intrusion and humidity, the feature types of its entries together with BeepEnable
\* are the ten types other than Pwm, and in every chip every feature has one of
\* these types and no subfeature comes from a file whose name starts with pwm.
C29_NoPwmFeature ==
    /\ DOMAIN FEATURE_TYPE_MAP =
            {"temp", "in", "fan", "cpu", "power", "curr", "energy", "intrusion", "humidity"}
    /\ {FEATURE_TYPE_MAP[t][1] : t \in DOMAIN FEATURE_TYPE_MAP} \cup {"BeepEnable"}
            = ChipFeatureTypes
    /\ (ChipDone /\ resolved.tag = "Ok") =>
        \A ft \in resolved.chip.features :
            /\ ft.feature_type \in ChipFeatureTypes
            /\ ft.feature_type # "Pwm"
            /\ \A x \in ft.subfeatures : ~IsPrefix("pwm", x.name)

\* A chip directory with pwm1, pwm1_enable and one fan attribute: one feature.
C29_Witness ==
    /\ ChipDone
    /\ resolved.tag = "Ok"
    /\ \E f \in ChipDir.files : f.kind = "file" /\ f.name = "pwm1"
    /\ \E f \in ChipDir.files : f.kind = "file" /\ f.name = "pwm1_enable"
    /\ Cardinality(resolved.chip.features) = 1
    /\ \A ft \in resolved.chip.features : ft.feature_type = "Fan"

-----------------------------------------------------------------------------
(* C30: the outcome of parse_configuration_str                             *)

\* The text holds a statement that the grammar does not accept.
HoldsRejected(stmts) == \E k \in 1..Len(stmts) : stmts[k].rule = "rejected"

IsBusStatement(st) == st.rule = "bus"

IsChipStatement(st) == st.rule = "chip"

\* The statements of one rule, in the order of the text they were written to.
InSourceOrder(stmts) == [k \in 1..Len(stmts) |-> stmts[k].stmt]

ExpectedCfg(stmts) ==
    [buses |-> InSourceOrder(SelectSeq(stmts, IsBusStatement)),
     chips |-> InSourceOrder(SelectSeq(stmts, IsChipStatement))]

\* C30: parse_configuration_str never aborts; a text that the grammar rejects
\* (a label name with an illegal character, a string without closing quote) is
\* returned as an Err value, on which unwrap_or_default gives the default
\* CfgFile; an accepted text is returned as Ok with the bus statements and the
\* chip statements in source order.
C30_ParseReportsErr ==
    confRet # NoResult =>
        /\ confRet.tag # "Panic"
        /\ HoldsRejected(confStmts) =>
                /\ confRet.tag = "Err"
                /\ unwrap_or_default(confRet) = CfgFile_default
        /\ ~HoldsRejected(confStmts) =>
                confRet = [tag |-> "Ok", cfg |-> ExpectedCfg(confStmts)]

\* What the code does instead: the accepted texts come back as Ok with the
\* statements in source order, the rejected ones abort the caller.
C30_AbortsOnRejected ==
    confRet # NoResult =>
        confRet = IF HoldsRejected(confStmts) THEN [tag |-> "Panic"]
                  ELSE [tag |-> "Ok", cfg |-> ExpectedCfg(confStmts)]

\* A text with a bus statement after a chip statement has been parsed.
C30_WitnessAccepted ==
    /\ Len(confStmts) = 2
    /\ confStmts[1].rule = "chip"
    /\ confStmts[2].rule = "bus"
    /\ confRet.tag = "Ok"

\* The text of tests::parse_conf_name_quoted_error_no_closing_EOF has been
\* handed to the parser.
C30_WitnessRejected ==
    /\ confText = "\nchip \"blah-*\"\n    label \"foo\" \"bar"
    /\ confRet # NoResult

-----------------------------------------------------------------------------
(* The specifications: each part of the library runs on its own variables, *)
(* the other parts stay idle.                                              *)

NextClassify == Classify /\ UNCHANGED <<valueVars, nameVars, enumVars, busVars, chipVars, ctxVars, labelVars, sessVars, scaleVars, parseVars>>

SpecClassify == InitClassify /\ [][NextClassify]_vars

NextValue ==
    \/ ReadValue /\ UNCHANGED <<classVars, nameVars, enumVars, busVars, chipVars, ctxVars, labelVars, sessVars, scaleVars, parseVars>>
    \/ WriteValue /\ UNCHANGED <<classVars, nameVars, enumVars, busVars, chipVars, ctxVars, labelVars, sessVars, scaleVars, parseVars>>
    \/ Unplug /\ UNCHANGED <<classVars, nameVars, enumVars, busVars, chipVars, ctxVars, labelVars, sessVars, scaleVars, parseVars>>

SpecValue == InitValue /\ [][NextValue]_vars

NextName == Name /\ UNCHANGED <<classVars, valueVars, enumVars, busVars, chipVars, ctxVars, labelVars, sessVars, scaleVars, parseVars>>

SpecName == InitName /\ [][NextName]_vars

NextEnum ==
    \/ ListFails /\ UNCHANGED <<classVars, valueVars, nameVars, busVars, chipVars, ctxVars, labelVars, sessVars, scaleVars, parseVars>>
    \/ ReadEntry /\ UNCHANGED <<classVars, valueVars, nameVars, busVars, chipVars, ctxVars, labelVars, sessVars, scaleVars, parseVars>>
    \/ Return /\ UNCHANGED <<classVars, valueVars, nameVars, busVars, chipVars, ctxVars, labelVars, sessVars, scaleVars, parseVars>>

SpecEnum == InitEnum /\ [][NextEnum]_vars

NextBus == GetChipBus /\ UNCHANGED <<classVars, valueVars, nameVars, enumVars, chipVars, ctxVars, labelVars, sessVars, scaleVars, parseVars>>

SpecBus == InitBus /\ [][NextBus]_vars

NextChip ==
    \/ FirstAttempt /\ UNCHANGED <<classVars, valueVars, nameVars, enumVars, busVars, ctxVars, labelVars, sessVars, scaleVars, parseVars>>
    \/ Retry /\ UNCHANGED <<classVars, valueVars, nameVars, enumVars, busVars, ctxVars, labelVars, sessVars, scaleVars, parseVars>>

SpecChip == InitChip /\ [][NextChip]_vars

NextContext ==
    \/ NewContext /\ UNCHANGED <<classVars, valueVars, nameVars, enumVars, busVars, chipVars, labelVars, sessVars, scaleVars, parseVars>>
    \/ BusOfChip /\ UNCHANGED <<classVars, valueVars, nameVars, enumVars, busVars, chipVars, labelVars, sessVars, scaleVars, parseVars>>
    \/ AdapterName /\ UNCHANGED <<classVars, valueVars, nameVars, enumVars, busVars, chipVars, labelVars, sessVars, scaleVars, parseVars>>

SpecContext == InitContext /\ [][NextContext]_vars

NextLabel ==
    \/ ChangeLabelFile /\ UNCHANGED <<classVars, valueVars, nameVars, enumVars, busVars, chipVars, ctxVars, sessVars, scaleVars, parseVars>>
    \/ Label /\ UNCHANGED <<classVars, valueVars, nameVars, enumVars, busVars, chipVars, ctxVars, sessVars, scaleVars, parseVars>>

SpecLabel == InitLabel /\ [][NextLabel]_vars

NextSession ==
    \/ Enumerate /\ UNCHANGED <<classVars, valueVars, nameVars, enumVars, busVars, chipVars, ctxVars, labelVars, scaleVars, parseVars>>
    \/ EnumerateAgain /\ UNCHANGED <<classVars, valueVars, nameVars, enumVars, busVars, chipVars, ctxVars, labelVars, scaleVars, parseVars>>
    \/ SysfsChange /\ UNCHANGED <<classVars, valueVars, nameVars, enumVars, busVars, chipVars, ctxVars, labelVars, scaleVars, parseVars>>
    \/ SessReadValue /\ UNCHANGED <<classVars, valueVars, nameVars, enumVars, busVars, chipVars, ctxVars, labelVars, scaleVars, parseVars>>
    \/ SessWriteValue /\ UNCHANGED <<classVars, valueVars, nameVars, enumVars, busVars, chipVars, ctxVars, labelVars, scaleVars, parseVars>>
    \/ SessLabel /\ UNCHANGED <<classVars, valueVars, nameVars, enumVars, busVars, chipVars, ctxVars, labelVars, scaleVars, parseVars>>

SpecSession == InitSession /\ [][NextSession]_vars

NextScale == ReadScaled /\ UNCHANGED <<classVars, valueVars, nameVars, enumVars, busVars, chipVars, ctxVars, labelVars, sessVars, parseVars>>

SpecScale == InitScale /\ [][NextScale]_vars

NextParse == Parse /\ UNCHANGED <<classVars, valueVars, nameVars, enumVars, busVars, chipVars, ctxVars, labelVars, sessVars, scaleVars>>

SpecParse == InitParse /\ [][NextParse]_vars

====
